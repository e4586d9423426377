--------------------- MODULE CertificateAuthorityProofs --------------------
(***************************************************************************)
(* Theorems about the certificate authority of SecureVault.  Types hold    *)
(* for any number of processes.  The rest is what the files promise when   *)
(* commands are run one at a time and may be killed anywhere: those        *)
(* theorems assume that there is one process, named q.                     *)
(***************************************************************************)
EXTENDS CertificateAuthority, TLAPS

-----------------------------------------------------------------------------
(* Types.                                                                  *)

(* A write keeps the type of the file and of the process's place in it.    *)
LEMMA WriteType ==
    ASSUME TypeOK, NEW p \in Procs, NEW V, NEW v \in V, NEW g, NEW next \in Steps,
           \/ g = Torn /\ open' = [open EXCEPT ![p] = TRUE] /\ UNCHANGED pc
           \/ /\ g = Full(v) \/ g = Torn
              /\ open' = [open EXCEPT ![p] = FALSE]
              /\ GoTo(p, next)
    PROVE  IsFile(g, V) /\ pc' \in [Procs -> Steps] /\ open' \in [Procs -> BOOLEAN]
<1>1. IsFile(Torn, V) /\ IsFile(Full(v), V)
    BY DEF IsFile, Full
<1>2. IsFile(g, V)
    BY <1>1
<1>3. pc' \in [Procs -> Steps]
    BY DEF GoTo, TypeOK
<1>4. open' \in [Procs -> BOOLEAN]
    BY DEF TypeOK
<1> QED
    BY <1>2, <1>3, <1>4

(* So does the end of a process, *)
LEMMA EndType ==
    ASSUME TypeOK, NEW p \in Procs, End(p)
    PROVE  pc' \in [Procs -> Steps] /\ job' \in [Procs -> Job]
<1>1. NoJob \in Job /\ "idle" \in Steps
    BY DEF NoJob, Job, Steps
<1> QED
    BY <1>1 DEF End, GoTo, TypeOK

(* and a read.                                                             *)
LEMMA ReadType ==
    ASSUME TypeOK, NEW p \in Procs, NEW f, NEW j, NEW next \in Steps,
           Legible(f) => j \in Job, Read(p, f, j, next)
    PROVE  pc' \in [Procs -> Steps] /\ job' \in [Procs -> Job]
<1>1. CASE ~Legible(f) /\ End(p)
    BY <1>1, EndType
<1>2. CASE Legible(f) /\ job' = [job EXCEPT ![p] = j] /\ GoTo(p, next)
    BY <1>2 DEF GoTo, TypeOK
<1> QED
    BY <1>1, <1>2 DEF Read

LEMMA ReadKeyType ==
    ASSUME TypeOK, NEW p \in Procs, NEW j, NEW next \in Steps,
           Legible(keyFile) => j \in Job, ReadKey(p, j, next)
    PROVE  pc' \in [Procs -> Steps] /\ job' \in [Procs -> Job]
BY ReadType, EndType DEF ReadKey

(* What a legible file holds has the type of the file. *)
LEMMA ContentType ==
    ASSUME NEW f, NEW V, IsFile(f, V), Legible(f)
    PROVE  f.content \in V
BY DEF IsFile, Legible, Absent, Torn

(* The local variables of a process, one by one. *)
LEMMA JobType ==
    ASSUME TypeOK, NEW p \in Procs
    PROVE  /\ job[p] \in Job
           /\ job[p].priv \in Nat /\ job[p].serial \in Nat /\ job[p].crl \in SUBSET Nat
BY DEF TypeOK, Job

(* Sequences: appending keeps the type, and elements have it. *)
LEMMA AppendType ==
    ASSUME NEW S, NEW s \in Seq(S), NEW e \in S
    PROVE  Append(s, e) \in Seq(S)
OBVIOUS

LEMMA ElementType ==
    ASSUME NEW S, NEW s \in Seq(S), NEW i \in DOMAIN s
    PROVE  s[i] \in S
OBVIOUS

(* Before the first command all files are absent. *)
LEMMA TypeInit == Init => TypeOK
<1>1. IsFile(Absent, Nat) /\ IsFile(Absent, SUBSET Nat)
    BY DEF IsFile
<1>2. NoJob \in Job /\ "idle" \in Steps
    BY DEF NoJob, Job, Steps
<1>3. << >> \in Seq([key : Nat, serial : Nat])
    OBVIOUS
<1> SUFFICES ASSUME Init PROVE TypeOK
    OBVIOUS
<1>4. /\ IsFile(keyFile, Nat) /\ IsFile(certFile, Nat)
      /\ IsFile(crlFile, SUBSET Nat) /\ IsFile(serialFile, Nat)
    BY <1>1, Zenon DEF Init
<1>5. /\ pc \in [Procs -> Steps] /\ open \in [Procs -> BOOLEAN] /\ job \in [Procs -> Job]
    BY <1>2 DEF Init
<1>6. issued \in Seq([key : Nat, serial : Nat])
    BY <1>3, Zenon DEF Init
<1>7. drawn \in Nat /\ revoked \subseteq Nat /\ interrupted \in BOOLEAN
    BY DEF Init
<1> QED
    BY <1>4, <1>5, <1>6, <1>7, Zenon DEF TypeOK

(* init_ca keeps the types. *)
LEMMA InitCAType ==
    ASSUME TypeOK, NEW p \in Procs, InitCA(p)
    PROVE  TypeOK'
<1> USE SerialAssumption, JobType
<1>1. CASE BeginInit(p)
  <2>1. drawn' \in Nat
      BY <1>1 DEF BeginInit, TypeOK
  <2>2. job' \in [Procs -> Job]
      BY <1>1, <2>1 DEF BeginInit, TypeOK, Job
  <2>3. pc' \in [Procs -> Steps]
      BY <1>1 DEF BeginInit, GoTo, TypeOK, Steps
  <2> QED
      BY <1>1, <2>1, <2>2, <2>3 DEF BeginInit, TypeOK, files
<1>2. CASE InitKey(p)
  <2>1. "initCert" \in Steps /\ job[p].priv \in Nat
      BY DEF Steps
  <2>2. IsFile(keyFile', Nat) /\ pc' \in [Procs -> Steps] /\ open' \in [Procs -> BOOLEAN]
      BY <1>2, <2>1, WriteType DEF InitKey, Write
  <2> QED
      BY <1>2, <2>2 DEF InitKey, TypeOK, others
<1>3. CASE InitCert(p)
  <2>1. CASE Write(p, certFile, job[p].priv, "initCRL") /\ UNCHANGED job
    <3>1. "initCRL" \in Steps /\ job[p].priv \in Nat
        BY DEF Steps
    <3>2. IsFile(certFile', Nat) /\ pc' \in [Procs -> Steps] /\ open' \in [Procs -> BOOLEAN]
        BY <2>1, <3>1, WriteType DEF Write
    <3> QED
        BY <1>3, <2>1, <3>2 DEF InitCert, TypeOK, others
  <2>2. CASE End(p) /\ UNCHANGED <<certFile, open>>
      BY <1>3, <2>2, EndType DEF InitCert, TypeOK, others
  <2> QED
      BY <1>3, <2>1, <2>2 DEF InitCert
<1>4. CASE InitCRL(p)
  <2>1. "initSerial" \in Steps /\ {} \in SUBSET Nat
      BY DEF Steps
  <2>2. /\ IsFile(crlFile', SUBSET Nat)
        /\ pc' \in [Procs -> Steps] /\ open' \in [Procs -> BOOLEAN]
      BY <1>4, <2>1, WriteType DEF InitCRL, Write
  <2> QED
      BY <1>4, <2>2 DEF InitCRL, TypeOK, others
<1>5. CASE InitSerial(p)
  <2>1. "initLog" \in Steps /\ FirstSerial \in Nat
      BY DEF Steps
  <2>2. IsFile(serialFile', Nat) /\ pc' \in [Procs -> Steps] /\ open' \in [Procs -> BOOLEAN]
      BY <1>5, <2>1, WriteType DEF InitSerial, Write
  <2> QED
      BY <1>5, <2>2 DEF InitSerial, TypeOK, others
<1>6. CASE InitLog(p)
    BY <1>6, EndType DEF InitLog, TypeOK, files, others
<1> QED
    BY <1>1, <1>2, <1>3, <1>4, <1>5, <1>6 DEF InitCA

(* issue_certificate keeps the types. *)
LEMMA IssueType ==
    ASSUME TypeOK, NEW p \in Procs, IssueCertificate(p)
    PROVE  TypeOK'
<1> USE SerialAssumption, JobType
<1>1. CASE BeginIssue(p)
    BY <1>1 DEF BeginIssue, GoTo, TypeOK, files, others, Steps
<1>2. CASE IssueKey(p)
  <2>1. Legible(keyFile) => [job[p] EXCEPT !.priv = keyFile.content] \in Job
      BY ContentType DEF TypeOK, Job
  <2>2. "issueCert" \in Steps
      BY DEF Steps
  <2>3. pc' \in [Procs -> Steps] /\ job' \in [Procs -> Job]
      BY <1>2, <2>1, <2>2, ReadKeyType DEF IssueKey
  <2> QED
      BY <1>2, <2>3 DEF IssueKey, TypeOK, files, others
<1>3. CASE IssueCert(p)
  <2>1. "issueSerial" \in Steps /\ job[p] \in Job
      BY DEF Steps
  <2>2. pc' \in [Procs -> Steps] /\ job' \in [Procs -> Job]
      BY <1>3, <2>1, ReadType DEF IssueCert
  <2> QED
      BY <1>3, <2>2 DEF IssueCert, TypeOK, files, others
<1>4. CASE IssueSerial(p)
  <2>1. Legible(serialFile) => [job[p] EXCEPT !.serial = serialFile.content] \in Job
      BY ContentType DEF TypeOK, Job
  <2>2. "saveSerial" \in Steps
      BY DEF Steps
  <2>3. pc' \in [Procs -> Steps] /\ job' \in [Procs -> Job]
      BY <1>4, <2>1, <2>2, ReadType DEF IssueSerial
  <2> QED
      BY <1>4, <2>3 DEF IssueSerial, TypeOK, files, others
<1>5. CASE SaveSerial(p)
  <2>1. "sign" \in Steps /\ job[p].serial + 1 \in Nat
      BY DEF Steps
  <2>2. IsFile(serialFile', Nat) /\ pc' \in [Procs -> Steps] /\ open' \in [Procs -> BOOLEAN]
      BY <1>5, <2>1, WriteType DEF SaveSerial, Write
  <2> QED
      BY <1>5, <2>2 DEF SaveSerial, TypeOK, others
<1>6. CASE Sign(p)
  <2>1. [key |-> job[p].priv, serial |-> job[p].serial] \in [key : Nat, serial : Nat]
      OBVIOUS
  <2>2. issued \in Seq([key : Nat, serial : Nat])
      BY Zenon DEF TypeOK
  <2>3. issued' \in Seq([key : Nat, serial : Nat])
    <3>1. CASE issued' = Append(issued, [key |-> job[p].priv, serial |-> job[p].serial])
        BY <2>1, <2>2, <3>1, AppendType
    <3>2. CASE UNCHANGED issued
        BY <2>2, <3>2
    <3> QED
        BY <1>6, <3>1, <3>2 DEF Sign
  <2> QED
      BY <1>6, <2>3, EndType DEF Sign, TypeOK, files
<1> QED
    BY <1>1, <1>2, <1>3, <1>4, <1>5, <1>6 DEF IssueCertificate

(* revoke_certificate keeps the types. *)
LEMMA RevokeType ==
    ASSUME TypeOK, NEW p \in Procs, RevokeCertificate(p)
    PROVE  TypeOK'
<1> USE SerialAssumption, JobType
<1>1. CASE BeginRevoke(p)
  <2>1. PICK s \in FirstSerial .. MaxSerial : job' = [job EXCEPT ![p].serial = s]
      BY <1>1 DEF BeginRevoke
  <2>2. s \in Nat
      OBVIOUS
  <2>3. [job[p] EXCEPT !.serial = s] \in Job
      BY <2>2 DEF Job
  <2>4. job' = [job EXCEPT ![p] = [job[p] EXCEPT !.serial = s]]
      BY <2>1
  <2>5. job' \in [Procs -> Job]
      BY <2>3, <2>4 DEF TypeOK
  <2> QED
      BY <1>1, <2>5 DEF BeginRevoke, GoTo, TypeOK, files, others, Steps
<1>2. CASE RevokeKey(p)
  <2>1. "revokeLoad" \in Steps /\ job[p] \in Job
      BY DEF Steps
  <2>2. pc' \in [Procs -> Steps] /\ job' \in [Procs -> Job]
      BY <1>2, <2>1, ReadKeyType DEF RevokeKey
  <2> QED
      BY <1>2, <2>2 DEF RevokeKey, TypeOK, files, others
<1>3. CASE RevokeLoad(p)
  <2>1. Legible(crlFile) =>
            [job[p] EXCEPT !.crl = crlFile.content \cup {job[p].serial}] \in Job
      BY ContentType DEF TypeOK, Job
  <2>2. "saveCRL" \in Steps
      BY DEF Steps
  <2>3. pc' \in [Procs -> Steps] /\ job' \in [Procs -> Job]
      BY <1>3, <2>1, <2>2, ReadType DEF RevokeLoad
  <2> QED
      BY <1>3, <2>3 DEF RevokeLoad, TypeOK, files, others
<1>4. CASE SaveCRL(p)
  <2>1. "acknowledge" \in Steps /\ job[p].crl \in SUBSET Nat
      BY DEF Steps
  <2>2. /\ IsFile(crlFile', SUBSET Nat)
        /\ pc' \in [Procs -> Steps] /\ open' \in [Procs -> BOOLEAN]
      BY <1>4, <2>1, WriteType DEF SaveCRL, Write
  <2> QED
      BY <1>4, <2>2 DEF SaveCRL, TypeOK, others
<1>5. CASE Acknowledge(p)
    BY <1>5, EndType DEF Acknowledge, TypeOK, files
<1> QED
    BY <1>1, <1>2, <1>3, <1>4, <1>5 DEF RevokeCertificate

(* Every step of every process keeps the types. *)
LEMMA TypeStep == TypeOK /\ [Next]_vars => TypeOK'
<1> SUFFICES ASSUME TypeOK, [Next]_vars
             PROVE  TypeOK'
    OBVIOUS
<1>1. CASE \E p \in Procs : InitCA(p) \/ IssueCertificate(p) \/ RevokeCertificate(p)
    BY <1>1, InitCAType, IssueType, RevokeType
<1>2. CASE \E p \in Procs : Interrupt(p)
  <2>1. PICK p \in Procs : Interrupt(p)
      BY <1>2
  <2> QED
      BY <2>1, EndType DEF Interrupt, TypeOK, files
<1>3. CASE UNCHANGED vars
    BY <1>3 DEF vars, TypeOK
<1> QED
    BY <1>1, <1>2, <1>3 DEF Next

(* The type of every variable, for any number of processes. *)
THEOREM CATypeCorrect == Spec => []TypeOK
<1> QED
    BY TypeInit, TypeStep, PTL DEF Spec

-----------------------------------------------------------------------------
(* One process at a time.  The invariant in four parts, for a process p.   *)

InitSteps == {"initKey", "initCert", "initCRL", "initSerial", "initLog"}
UseSteps  == {"issueKey", "issueCert", "issueSerial", "saveSerial", "sign",
              "revokeKey", "revokeLoad", "saveCRL", "acknowledge"}

(* While init_ca runs, nothing was issued or revoked yet; the other two    *)
(* commands only run once there is a CA certificate.                       *)
Phases(p) ==
    /\ ~Exists(certFile) => issued = << >> /\ revoked = {}
    /\ pc[p] \in InitSteps => issued = << >> /\ revoked = {}
    /\ pc[p] \in UseSteps => Exists(certFile)

(* serial.json is ahead of every certificate, and so is the number that    *)
(* issue_certificate holds; once saved, serial.json is ahead of it too.    *)
Serials(p) ==
    /\ Legible(serialFile) => \A i \in DOMAIN issued : issued[i].serial < serialFile.content
    /\ pc[p] \in {"saveSerial", "sign"} =>
           \A i \in DOMAIN issued : issued[i].serial < job[p].serial
    /\ pc[p] = "sign" /\ Legible(serialFile) => job[p].serial < serialFile.content

(* The list about to be saved has all that was revoked. *)
Lists(p) ==
    /\ pc[p] = "saveCRL" => revoked \cup {job[p].serial} \subseteq job[p].crl
    /\ pc[p] = "acknowledge" /\ Legible(crlFile) => job[p].serial \in crlFile.content

(* The private key on disk, the one in use and the one of every issued     *)
(* certificate is that of the CA certificate.                              *)
Keys(p) ==
    /\ pc[p] = "initKey" => ~Exists(certFile)
    /\ pc[p] = "initCert" =>
           ~Legible(certFile) /\ (Legible(keyFile) => keyFile.content = job[p].priv)
    /\ Legible(keyFile) /\ Legible(certFile) => keyFile.content = certFile.content
    /\ pc[p] \in {"issueCert", "issueSerial", "saveSerial", "sign"} /\ Legible(certFile) =>
           job[p].priv = certFile.content
    /\ \A i \in DOMAIN issued : Legible(certFile) => issued[i].key = certFile.content

IInv(p) == Phases(p) /\ Serials(p) /\ SerialsIncrease /\ Lists(p) /\ RevocationsKept /\ Keys(p)

(* What the three forms of a file are. *)
LEMMA FileForms ==
    /\ ~Legible(Absent) /\ ~Exists(Absent)
    /\ ~Legible(Torn) /\ Exists(Torn)
    /\ \A v : Legible(Full(v)) /\ Exists(Full(v)) /\ Full(v).content = v
    /\ \A f : Legible(f) => Exists(f)
BY DEF Legible, Exists, Absent, Torn, Full

(* Where the processes stand are functions. *)
LEMMA PlaceType ==
    ASSUME TypeOK
    PROVE  pc \in [Procs -> Steps] /\ open \in [Procs -> BOOLEAN]
BY DEF TypeOK

(* Where a write, *)
LEMMA WriteAt ==
    ASSUME TypeOK, NEW p \in Procs, NEW v, NEW g, NEW next,
           \/ g = Torn /\ open' = [open EXCEPT ![p] = TRUE] /\ UNCHANGED pc
           \/ /\ g = Full(v) \/ g = Torn
              /\ open' = [open EXCEPT ![p] = FALSE]
              /\ GoTo(p, next)
    PROVE  /\ g = Torn \/ g = Full(v)
           /\ pc'[p] = next \/ (pc'[p] = pc[p] /\ g = Torn)
BY DEF GoTo, TypeOK

(* the end of a process *)
LEMMA EndAt ==
    ASSUME TypeOK, NEW p \in Procs, End(p)
    PROVE  pc'[p] = "idle"
BY DEF End, GoTo, TypeOK

(* and a read leave it.                                                    *)
LEMMA ReadAt ==
    ASSUME TypeOK, NEW p \in Procs, NEW f, NEW j, NEW next, Read(p, f, j, next)
    PROVE  \/ pc'[p] = "idle"
           \/ Legible(f) /\ pc'[p] = next /\ job'[p] = j
<1>1. CASE ~Legible(f) /\ End(p)
    BY <1>1, EndAt
<1>2. CASE Legible(f) /\ job' = [job EXCEPT ![p] = j] /\ GoTo(p, next)
    BY <1>2 DEF GoTo, TypeOK
<1> QED
    BY <1>1, <1>2 DEF Read

LEMMA ReadKeyAt ==
    ASSUME TypeOK, NEW p \in Procs, NEW j, NEW next, ReadKey(p, j, next)
    PROVE  \/ pc'[p] = "idle"
           \/ Legible(keyFile) /\ pc'[p] = next /\ job'[p] = j
BY ReadAt, EndAt DEF ReadKey

(* Nothing was issued or revoked yet, and there are no files. *)
LEMMA InitialInv == ASSUME NEW p \in Procs, Init PROVE IInv(p)
<1>1. pc[p] = "idle" /\ issued = << >> /\ revoked = {} /\ DOMAIN issued = {}
    BY DEF Init
<1>2. ~Legible(keyFile) /\ ~Legible(certFile) /\ ~Legible(crlFile) /\ ~Legible(serialFile)
    BY FileForms DEF Init
<1>3. Phases(p) /\ Serials(p)
    BY <1>1, <1>2 DEF Phases, Serials, InitSteps, UseSteps
<1>4. Lists(p) /\ RevocationsKept
    BY <1>1, <1>2 DEF Lists, RevocationsKept
<1>5. Keys(p) /\ SerialsIncrease
    BY <1>1, <1>2 DEF Keys, SerialsIncrease
<1> QED
    BY <1>3, <1>4, <1>5 DEF IInv

(* A process that ends or is idle only has the files to answer for. *)
LEMMA IdleInv ==
    ASSUME NEW p \in Procs, IInv(p), pc'[p] = "idle", UNCHANGED <<files, issued, revoked>>
    PROVE  IInv(p)'
<1>1. UNCHANGED <<keyFile, certFile, crlFile, serialFile, issued, revoked>>
    BY DEF files
<1>2. Phases(p)'
    BY <1>1 DEF IInv, Phases, InitSteps, UseSteps
<1>3. Serials(p)'
    BY <1>1 DEF IInv, Serials
<1>4. SerialsIncrease' /\ RevocationsKept'
    BY <1>1 DEF IInv, SerialsIncrease, RevocationsKept
<1>5. Lists(p)'
    BY <1>1 DEF IInv, Lists
<1>6. Keys(p)'
    BY <1>1 DEF IInv, Keys
<1> QED
    BY <1>2, <1>3, <1>4, <1>5, <1>6 DEF IInv

(* init_ca keeps the invariant: nothing was issued, nothing was revoked. *)
LEMMA InitCAInv ==
    ASSUME TypeOK, NEW p \in Procs, IInv(p), InitCA(p)
    PROVE  IInv(p)'
<1> USE FileForms
<1>1. CASE BeginInit(p)
  <2>1. /\ pc[p] = "idle" /\ ~Exists(certFile) /\ pc'[p] = "initKey"
        /\ UNCHANGED <<keyFile, certFile, crlFile, serialFile, issued, revoked>>
      BY <1>1 DEF BeginInit, GoTo, TypeOK, files
  <2>2. issued = << >> /\ revoked = {} /\ DOMAIN issued = {}
      BY <2>1 DEF IInv, Phases
  <2> QED
      BY <2>1, <2>2 DEF IInv, Phases, Serials, SerialsIncrease, Lists, RevocationsKept, Keys,
                        InitSteps, UseSteps
<1>2. CASE InitKey(p)
  <2>1. /\ pc[p] = "initKey"
        /\ UNCHANGED <<certFile, crlFile, serialFile, job, issued, revoked>>
      BY <1>2 DEF InitKey, others
  <2>2. /\ keyFile' = Torn \/ keyFile' = Full(job[p].priv)
        /\ pc'[p] = "initCert" \/ (pc'[p] = pc[p] /\ keyFile' = Torn)
      BY <1>2, WriteAt DEF InitKey, Write
  <2>3. issued = << >> /\ revoked = {} /\ DOMAIN issued = {} /\ ~Exists(certFile)
      BY <2>1 DEF IInv, Phases, Keys, InitSteps
  <2>4. Phases(p)' /\ Serials(p)' /\ Lists(p)'
      BY <2>1, <2>2, <2>3 DEF Phases, Serials, Lists, UseSteps
  <2>5. SerialsIncrease' /\ RevocationsKept'
      BY <2>1, <2>3 DEF SerialsIncrease, RevocationsKept
  <2>6. Keys(p)'
      BY <2>1, <2>2, <2>3 DEF Keys
  <2> QED
      BY <2>4, <2>5, <2>6 DEF IInv
<1>3. CASE InitCert(p) /\ End(p) /\ UNCHANGED <<certFile, open>>
    BY <1>3, EndAt, IdleInv DEF InitCert, files, others
<1>4. CASE InitCert(p) /\ Write(p, certFile, job[p].priv, "initCRL") /\ UNCHANGED job
  <2>1. /\ pc[p] = "initCert"
        /\ UNCHANGED <<keyFile, crlFile, serialFile, job, issued, revoked>>
      BY <1>4 DEF InitCert, others
  <2>2. /\ certFile' = Torn \/ certFile' = Full(job[p].priv)
        /\ pc'[p] = "initCRL" \/ (pc'[p] = pc[p] /\ certFile' = Torn)
      BY <1>4, WriteAt DEF Write
  <2>3. /\ issued = << >> /\ revoked = {} /\ DOMAIN issued = {}
        /\ Legible(keyFile) => keyFile.content = job[p].priv
      BY <2>1 DEF IInv, Phases, Keys, InitSteps
  <2>4. Phases(p)' /\ Serials(p)' /\ Lists(p)'
      BY <2>1, <2>2, <2>3 DEF Phases, Serials, Lists, UseSteps
  <2>5. SerialsIncrease' /\ RevocationsKept'
      BY <2>1, <2>3 DEF SerialsIncrease, RevocationsKept
  <2>6. Keys(p)'
      BY <2>1, <2>2, <2>3 DEF Keys
  <2> QED
      BY <2>4, <2>5, <2>6 DEF IInv
<1>5. CASE InitCRL(p)
  <2>1. /\ pc[p] = "initCRL"
        /\ UNCHANGED <<keyFile, certFile, serialFile, job, issued, revoked>>
      BY <1>5 DEF InitCRL, others
  <2>2. pc'[p] = "initSerial" \/ pc'[p] = pc[p]
      BY <1>5, WriteAt DEF InitCRL, Write
  <2>3. issued = << >> /\ revoked = {} /\ DOMAIN issued = {}
      BY <2>1 DEF IInv, Phases, InitSteps
  <2>4. Phases(p)' /\ Serials(p)' /\ Lists(p)'
      BY <2>1, <2>2, <2>3 DEF Phases, Serials, Lists, UseSteps
  <2>5. SerialsIncrease' /\ RevocationsKept'
      BY <2>1, <2>3 DEF SerialsIncrease, RevocationsKept
  <2>6. Keys(p)'
      BY <2>1, <2>2, <2>3 DEF IInv, Keys
  <2> QED
      BY <2>4, <2>5, <2>6 DEF IInv
<1>6. CASE InitSerial(p)
  <2>1. /\ pc[p] = "initSerial"
        /\ UNCHANGED <<keyFile, certFile, crlFile, job, issued, revoked>>
      BY <1>6 DEF InitSerial, others
  <2>2. pc'[p] = "initLog" \/ pc'[p] = pc[p]
      BY <1>6, WriteAt DEF InitSerial, Write
  <2>3. issued = << >> /\ revoked = {} /\ DOMAIN issued = {}
      BY <2>1 DEF IInv, Phases, InitSteps
  <2>4. Phases(p)' /\ Serials(p)' /\ Lists(p)'
      BY <2>1, <2>2, <2>3 DEF Phases, Serials, Lists, UseSteps
  <2>5. SerialsIncrease' /\ RevocationsKept'
      BY <2>1, <2>3 DEF SerialsIncrease, RevocationsKept
  <2>6. Keys(p)'
      BY <2>1, <2>2, <2>3 DEF IInv, Keys
  <2> QED
      BY <2>4, <2>5, <2>6 DEF IInv
<1>7. CASE InitLog(p)
    BY <1>7, EndAt, IdleInv DEF InitLog, files, others
<1> QED
    BY <1>1, <1>2, <1>3, <1>4, <1>5, <1>6, <1>7 DEF InitCA, InitCert

(* issue_certificate keeps the invariant: the number is saved before it is *)
(* signed under.                                                           *)
LEMMA IssueInv ==
    ASSUME TypeOK, NEW p \in Procs, IInv(p), IssueCertificate(p)
    PROVE  IInv(p)'
<1> USE FileForms
<1> DEFINE Frame == UNCHANGED <<keyFile, certFile, crlFile, serialFile, issued, revoked>>
<1>1. CASE BeginIssue(p)
  <2>1. Frame /\ pc[p] = "idle" /\ Exists(certFile) /\ pc'[p] = "issueKey"
      BY <1>1 DEF BeginIssue, GoTo, TypeOK, files, others
  <2>2. Phases(p)' /\ Serials(p)' /\ Lists(p)'
      BY <2>1 DEF IInv, Phases, Serials, Lists, InitSteps, UseSteps
  <2>3. SerialsIncrease' /\ RevocationsKept' /\ Keys(p)'
      BY <2>1 DEF IInv, SerialsIncrease, RevocationsKept, Keys
  <2> QED
      BY <2>2, <2>3 DEF IInv
<1>2. CASE IssueKey(p)
  <2> DEFINE j == [job[p] EXCEPT !.priv = keyFile.content]
  <2>1. j.priv = keyFile.content
      BY JobType DEF Job
  <2> HIDE DEF j
  <2>2. Frame /\ pc[p] = "issueKey"
      BY <1>2 DEF IssueKey, files, others
  <2>3. CASE pc'[p] = "idle"
      BY <2>2, <2>3, IdleInv DEF files
  <2>4. CASE Legible(keyFile) /\ pc'[p] = "issueCert" /\ job'[p] = j
    <3>1. Phases(p)' /\ Serials(p)' /\ Lists(p)'
        BY <2>2, <2>4 DEF IInv, Phases, Serials, Lists, InitSteps, UseSteps
    <3>2. SerialsIncrease' /\ RevocationsKept'
        BY <2>2 DEF IInv, SerialsIncrease, RevocationsKept
    <3>3. Keys(p)'
        BY <2>1, <2>2, <2>4 DEF IInv, Keys
    <3> QED
        BY <3>1, <3>2, <3>3 DEF IInv
  <2> QED
      BY <1>2, <2>3, <2>4, ReadKeyAt DEF IssueKey, j
<1>3. CASE IssueCert(p)
  <2>1. Frame /\ pc[p] = "issueCert"
      BY <1>3 DEF IssueCert, files, others
  <2>2. CASE pc'[p] = "idle"
      BY <2>1, <2>2, IdleInv DEF files
  <2>3. CASE pc'[p] = "issueSerial" /\ job'[p] = job[p]
    <3>1. Phases(p)' /\ Serials(p)' /\ Lists(p)'
        BY <2>1, <2>3 DEF IInv, Phases, Serials, Lists, InitSteps, UseSteps
    <3>2. SerialsIncrease' /\ RevocationsKept' /\ Keys(p)'
        BY <2>1, <2>3 DEF IInv, SerialsIncrease, RevocationsKept, Keys
    <3> QED
        BY <3>1, <3>2 DEF IInv
  <2> QED
      BY <1>3, <2>2, <2>3, ReadAt DEF IssueCert
<1>4. CASE IssueSerial(p)
  <2> DEFINE j == [job[p] EXCEPT !.serial = serialFile.content]
  <2>1. j.serial = serialFile.content /\ j.priv = job[p].priv
      BY JobType DEF Job
  <2> HIDE DEF j
  <2>2. Frame /\ pc[p] = "issueSerial"
      BY <1>4 DEF IssueSerial, files, others
  <2>3. CASE pc'[p] = "idle"
      BY <2>2, <2>3, IdleInv DEF files
  <2>4. CASE Legible(serialFile) /\ pc'[p] = "saveSerial" /\ job'[p] = j
    <3>1. Phases(p)' /\ Serials(p)' /\ Lists(p)'
        BY <2>1, <2>2, <2>4 DEF IInv, Phases, Serials, Lists, InitSteps, UseSteps
    <3>2. SerialsIncrease' /\ RevocationsKept' /\ Keys(p)'
        BY <2>1, <2>2, <2>4 DEF IInv, SerialsIncrease, RevocationsKept, Keys
    <3> QED
        BY <3>1, <3>2 DEF IInv
  <2> QED
      BY <1>4, <2>3, <2>4, ReadAt DEF IssueSerial, j
<1>5. CASE SaveSerial(p)
  <2>1. /\ pc[p] = "saveSerial"
        /\ UNCHANGED <<keyFile, certFile, crlFile, job, issued, revoked>>
      BY <1>5 DEF SaveSerial, others
  <2>2. /\ serialFile' = Torn \/ serialFile' = Full(job[p].serial + 1)
        /\ pc'[p] = "sign" \/ (pc'[p] = pc[p] /\ serialFile' = Torn)
      BY <1>5, PlaceType DEF SaveSerial, Write, GoTo
  <2>3. \A i \in DOMAIN issued : issued[i].serial \in Nat /\ issued[i].serial < job[p].serial
    <3>1. issued \in Seq([key : Nat, serial : Nat])
        BY DEF TypeOK
    <3>2. \A i \in DOMAIN issued : issued[i] \in [key : Nat, serial : Nat]
        BY <3>1, ElementType
    <3>3. \A i \in DOMAIN issued : issued[i].serial \in Nat
        BY <3>2
    <3> QED
        BY <2>1, <3>3 DEF IInv, Serials
  <2>4. job[p].serial \in Nat
      BY JobType
  <2>5. Legible(serialFile') => serialFile'.content = job[p].serial + 1
      BY <2>2
  <2>6. Serials(p)'
      BY <2>1, <2>2, <2>3, <2>4, <2>5 DEF Serials
  <2>7. Phases(p)' /\ Lists(p)'
      BY <2>1, <2>2 DEF IInv, Phases, Lists, InitSteps, UseSteps
  <2>8. SerialsIncrease' /\ RevocationsKept' /\ Keys(p)'
      BY <2>1, <2>2 DEF IInv, SerialsIncrease, RevocationsKept, Keys
  <2> QED
      BY <2>6, <2>7, <2>8 DEF IInv
<1>6. CASE Sign(p) /\ UNCHANGED issued
    BY <1>6, EndAt, IdleInv DEF Sign
<1>7. CASE Sign(p) /\ issued' = Append(issued, [key |-> job[p].priv, serial |-> job[p].serial])
  <2> DEFINE c == [key |-> job[p].priv, serial |-> job[p].serial]
  <2>1. c.key = job[p].priv /\ c.serial = job[p].serial
      OBVIOUS
  <2>2. /\ pc[p] = "sign" /\ pc'[p] = "idle"
        /\ UNCHANGED <<keyFile, certFile, crlFile, serialFile, revoked>>
      BY <1>7, EndAt DEF Sign, files
  <2> HIDE DEF c
  <2>3. /\ issued \in Seq([key : Nat, serial : Nat])
        /\ issued' = Append(issued, c)
      BY <1>7 DEF TypeOK, c
  <2>4. /\ DOMAIN issued' = 1 .. Len(issued) + 1 /\ DOMAIN issued = 1 .. Len(issued)
        /\ Len(issued) \in Nat
        /\ \A i \in DOMAIN issued' : issued'[i] = IF i = Len(issued) + 1 THEN c ELSE issued[i]
      BY <2>3
  <2>5. Phases(p)' /\ Lists(p)' /\ RevocationsKept'
      BY <2>2 DEF IInv, Phases, Lists, RevocationsKept, InitSteps, UseSteps
  <2>6. Serials(p)'
      BY <2>1, <2>2, <2>4 DEF IInv, Serials
  <2>7. SerialsIncrease'
      BY <2>1, <2>2, <2>4 DEF IInv, Serials, SerialsIncrease
  <2>8. Keys(p)'
      BY <2>1, <2>2, <2>4 DEF IInv, Keys
  <2> QED
      BY <2>5, <2>6, <2>7, <2>8 DEF IInv
<1> QED
    BY <1>1, <1>2, <1>3, <1>4, <1>5, <1>6, <1>7 DEF IssueCertificate, Sign

(* revoke_certificate keeps the invariant: what it acknowledges is in the  *)
(* list it saved, and the list only grows.                                 *)
LEMMA RevokeInv ==
    ASSUME TypeOK, NEW p \in Procs, IInv(p), RevokeCertificate(p)
    PROVE  IInv(p)'
<1> USE FileForms
<1> DEFINE Frame == UNCHANGED <<keyFile, certFile, crlFile, serialFile, issued, revoked>>
<1>1. CASE BeginRevoke(p)
  <2>1. Frame /\ pc[p] = "idle" /\ Exists(certFile) /\ pc'[p] = "revokeKey"
      BY <1>1 DEF BeginRevoke, GoTo, TypeOK, files, others
  <2>2. Phases(p)' /\ Serials(p)' /\ Lists(p)'
      BY <2>1 DEF IInv, Phases, Serials, Lists, InitSteps, UseSteps
  <2>3. SerialsIncrease' /\ RevocationsKept' /\ Keys(p)'
      BY <2>1 DEF IInv, SerialsIncrease, RevocationsKept, Keys
  <2> QED
      BY <2>2, <2>3 DEF IInv
<1>2. CASE RevokeKey(p)
  <2>1. Frame /\ pc[p] = "revokeKey"
      BY <1>2 DEF RevokeKey, files, others
  <2>2. CASE pc'[p] = "idle"
      BY <2>1, <2>2, IdleInv DEF files
  <2>3. CASE pc'[p] = "revokeLoad" /\ job'[p] = job[p]
    <3>1. Phases(p)' /\ Serials(p)' /\ Lists(p)'
        BY <2>1, <2>3 DEF IInv, Phases, Serials, Lists, InitSteps, UseSteps
    <3>2. SerialsIncrease' /\ RevocationsKept' /\ Keys(p)'
        BY <2>1, <2>3 DEF IInv, SerialsIncrease, RevocationsKept, Keys
    <3> QED
        BY <3>1, <3>2 DEF IInv
  <2> QED
      BY <1>2, <2>2, <2>3, ReadKeyAt DEF RevokeKey
<1>3. CASE RevokeLoad(p)
  <2> DEFINE j == [job[p] EXCEPT !.crl = crlFile.content \cup {job[p].serial}]
  <2>1. j.crl = crlFile.content \cup {job[p].serial} /\ j.serial = job[p].serial
      BY JobType DEF Job
  <2> HIDE DEF j
  <2>2. Frame /\ pc[p] = "revokeLoad"
      BY <1>3 DEF RevokeLoad, files, others
  <2>3. CASE pc'[p] = "idle"
      BY <2>2, <2>3, IdleInv DEF files
  <2>4. CASE Legible(crlFile) /\ pc'[p] = "saveCRL" /\ job'[p] = j
    <3>1. revoked \subseteq crlFile.content
        BY <2>4 DEF IInv, RevocationsKept
    <3>2. Lists(p)'
        BY <2>1, <2>2, <2>4, <3>1 DEF Lists
    <3>3. Phases(p)' /\ Serials(p)'
        BY <2>2, <2>4 DEF IInv, Phases, Serials, InitSteps, UseSteps
    <3>4. SerialsIncrease' /\ RevocationsKept' /\ Keys(p)'
        BY <2>2, <2>4 DEF IInv, SerialsIncrease, RevocationsKept, Keys
    <3> QED
        BY <3>2, <3>3, <3>4 DEF IInv
  <2> QED
      BY <1>3, <2>3, <2>4, ReadAt DEF RevokeLoad, j
<1>4. CASE SaveCRL(p)
  <2>1. /\ pc[p] = "saveCRL"
        /\ UNCHANGED <<keyFile, certFile, serialFile, job, issued, revoked>>
      BY <1>4 DEF SaveCRL, others
  <2>2. /\ crlFile' = Torn \/ crlFile' = Full(job[p].crl)
        /\ pc'[p] = "acknowledge" \/ (pc'[p] = pc[p] /\ crlFile' = Torn)
      BY <1>4, WriteAt DEF SaveCRL, Write
  <2>3. Legible(crlFile') => crlFile'.content = job[p].crl
      BY <2>2
  <2>4. revoked \cup {job[p].serial} \subseteq job[p].crl
      BY <2>1 DEF IInv, Lists
  <2>5. Lists(p)' /\ RevocationsKept'
      BY <2>1, <2>2, <2>3, <2>4 DEF Lists, RevocationsKept
  <2>6. Phases(p)' /\ Serials(p)'
      BY <2>1, <2>2 DEF IInv, Phases, Serials, InitSteps, UseSteps
  <2>7. SerialsIncrease' /\ Keys(p)'
      BY <2>1, <2>2 DEF IInv, SerialsIncrease, Keys
  <2> QED
      BY <2>5, <2>6, <2>7 DEF IInv
<1>5. CASE Acknowledge(p)
  <2>1. /\ pc[p] = "acknowledge" /\ pc'[p] = "idle" /\ revoked' = revoked \cup {job[p].serial}
        /\ UNCHANGED <<keyFile, certFile, crlFile, serialFile, issued>>
      BY <1>5, EndAt DEF Acknowledge, files
  <2>2. RevocationsKept'
      BY <2>1 DEF IInv, Lists, RevocationsKept
  <2>3. Phases(p)' /\ Serials(p)' /\ Lists(p)'
      BY <2>1 DEF IInv, Phases, Serials, Lists, InitSteps, UseSteps
  <2>4. SerialsIncrease' /\ Keys(p)'
      BY <2>1 DEF IInv, SerialsIncrease, Keys
  <2> QED
      BY <2>2, <2>3, <2>4 DEF IInv
<1> QED
    BY <1>1, <1>2, <1>3, <1>4, <1>5 DEF RevokeCertificate

(* Every step of the one process keeps the invariant. *)
LEMMA StepInv ==
    ASSUME NEW q, Procs = {q}, TypeOK, IInv(q), [Next]_vars
    PROVE  IInv(q)'
<1>0. q \in Procs
    OBVIOUS
<1>1. CASE InitCA(q) \/ IssueCertificate(q) \/ RevokeCertificate(q)
    BY <1>0, <1>1, InitCAInv, IssueInv, RevokeInv
<1>2. CASE Interrupt(q)
    BY <1>0, <1>2, EndAt, IdleInv DEF Interrupt
<1>3. CASE UNCHANGED vars
  <2>1. UNCHANGED <<keyFile, certFile, crlFile, serialFile, pc, job, issued, revoked>>
      BY <1>3 DEF vars
  <2>2. Phases(q)' /\ Serials(q)' /\ Lists(q)'
      BY <2>1 DEF IInv, Phases, Serials, Lists
  <2>3. SerialsIncrease' /\ RevocationsKept' /\ Keys(q)'
      BY <2>1 DEF IInv, SerialsIncrease, RevocationsKept, Keys
  <2> QED
      BY <2>2, <2>3 DEF IInv
<1> QED
    BY <1>1, <1>2, <1>3 DEF Next

(* With one process the invariant always holds. *)
LEMMA InvCorrect == ASSUME NEW q, Procs = {q} PROVE Spec => []IInv(q)
<1>1. Init => IInv(q)
    BY InitialInv
<1>2. TypeOK /\ IInv(q) /\ [Next]_vars => IInv(q)'
    BY StepInv
<1> QED
    BY <1>1, <1>2, CATypeCorrect, PTL DEF Spec

(* One command at a time, killed anywhere: under one CA key no serial      *)
(* number is handed out twice, for save_serial comes before sign.          *)
THEOREM CASerialsIncrease ==
    ASSUME NEW q, Procs = {q}
    PROVE  Spec => []SerialsIncrease
<1>1. IInv(q) => SerialsIncrease
    BY DEF IInv
<1> QED
    BY <1>1, InvCorrect, PTL

(* One command at a time, killed anywhere: what revoke_certificate         *)
(* acknowledged stays in a crl.json that parses.                           *)
THEOREM CARevocationsKept ==
    ASSUME NEW q, Procs = {q}
    PROVE  Spec => []RevocationsKept
<1>1. IInv(q) => RevocationsKept
    BY DEF IInv
<1> QED
    BY <1>1, InvCorrect, PTL

(* One command at a time, killed anywhere: the key that signs and the CA   *)
(* certificate are one pair, so what was issued verifies until revoked.    *)
THEOREM CAIssuedVerifies ==
    ASSUME NEW q, Procs = {q}
    PROVE  Spec => []IssuedVerifies
<1>1. IInv(q) => IssuedVerifies
    BY DEF IInv, Keys, IssuedVerifies, Verifies
<1> QED
    BY <1>1, InvCorrect, PTL

-----------------------------------------------------------------------------
(* The refinement.                                                         *)

(* A file is truncated only while its write is under way; of crl.json,     *)
(* that it is torn then.                                                   *)
WriteSteps == {"initKey", "initCert", "initCRL", "initSerial", "saveSerial", "saveCRL"}

OpenInv(p) ==
    /\ open[p] => pc[p] \in WriteSteps
    /\ open[p] /\ pc[p] = "saveCRL" => crlFile = Torn

(* What the steps of a process do to its open file: a write, *)
LEMMA WriteOpen ==
    ASSUME TypeOK, NEW p \in Procs, NEW f, NEW g, NEW v, NEW next,
           \/ ~open[p] /\ g = Torn /\ open' = [open EXCEPT ![p] = TRUE] /\ UNCHANGED pc
           \/ /\ open[p]
              /\ g = Full(v) \/ (f # Torn /\ g = Torn)
              /\ open' = [open EXCEPT ![p] = FALSE]
              /\ GoTo(p, next)
    PROVE  \/ open'[p] = TRUE /\ pc'[p] = pc[p] /\ g = Torn
           \/ open'[p] = FALSE
BY DEF GoTo, TypeOK

(* and every step that is not one.                                         *)
LEMMA ClosedStep ==
    ASSUME NEW p \in Procs, OpenInv(p), pc[p] \notin WriteSteps, UNCHANGED open
    PROVE  OpenInv(p)'
BY DEF OpenInv

LEMMA InitialOpen == ASSUME NEW p \in Procs, Init PROVE OpenInv(p)
BY DEF Init, OpenInv

LEMMA StepOpen ==
    ASSUME NEW q, Procs = {q}, TypeOK, OpenInv(q), [Next]_vars
    PROVE  OpenInv(q)'
<1>0. q \in Procs
    OBVIOUS
<1>1. CASE BeginInit(q) \/ InitLog(q) \/ BeginIssue(q) \/ IssueKey(q) \/ IssueCert(q)
           \/ IssueSerial(q) \/ Sign(q)
  <2>1. pc[q] \notin WriteSteps /\ UNCHANGED open
      BY <1>1 DEF BeginInit, InitLog, BeginIssue, IssueKey, IssueCert, IssueSerial, Sign,
                  WriteSteps
  <2> QED
      BY <1>0, <2>1, ClosedStep
<1>2. CASE BeginRevoke(q) \/ RevokeKey(q) \/ RevokeLoad(q) \/ Acknowledge(q)
  <2>1. pc[q] \notin WriteSteps /\ UNCHANGED open
      BY <1>2 DEF BeginRevoke, RevokeKey, RevokeLoad, Acknowledge, WriteSteps
  <2> QED
      BY <1>0, <2>1, ClosedStep
<1>3. CASE InitKey(q)
  <2>1. open'[q] = FALSE \/ pc'[q] = pc[q]
      BY <1>0, <1>3, WriteOpen DEF InitKey, Write
  <2> QED
      BY <1>3, <2>1 DEF InitKey, OpenInv, WriteSteps
<1>4. CASE InitCert(q)
  <2>1. CASE Write(q, certFile, job[q].priv, "initCRL")
    <3>1. open'[q] = FALSE \/ pc'[q] = pc[q]
        BY <1>0, <2>1, WriteOpen DEF Write
    <3> QED
        BY <1>4, <3>1 DEF InitCert, OpenInv, WriteSteps
  <2>2. CASE ~open[q] /\ UNCHANGED open
      BY <2>2 DEF OpenInv
  <2> QED
      BY <1>4, <2>1, <2>2 DEF InitCert
<1>5. CASE InitCRL(q)
  <2>1. open'[q] = FALSE \/ pc'[q] = pc[q]
      BY <1>0, <1>5, WriteOpen DEF InitCRL, Write
  <2> QED
      BY <1>5, <2>1 DEF InitCRL, OpenInv, WriteSteps
<1>6. CASE InitSerial(q)
  <2>1. open'[q] = FALSE \/ pc'[q] = pc[q]
      BY <1>0, <1>6, WriteOpen DEF InitSerial, Write
  <2> QED
      BY <1>6, <2>1 DEF InitSerial, OpenInv, WriteSteps
<1>7. CASE SaveSerial(q)
  <2>1. open'[q] = FALSE \/ pc'[q] = pc[q]
      BY <1>0, <1>7, WriteOpen DEF SaveSerial, Write
  <2> QED
      BY <1>7, <2>1 DEF SaveSerial, OpenInv, WriteSteps
<1>8. CASE SaveCRL(q)
  <2>1. \/ open'[q] = FALSE
        \/ open'[q] = TRUE /\ pc'[q] = pc[q] /\ crlFile' = Torn
      BY <1>0, <1>8, WriteOpen DEF SaveCRL, Write
  <2> QED
      BY <1>8, <2>1 DEF SaveCRL, OpenInv, WriteSteps
<1>9. CASE Interrupt(q)
  <2>1. open'[q] = FALSE
      BY <1>0, <1>9 DEF Interrupt, TypeOK
  <2> QED
      BY <2>1 DEF OpenInv
<1>10. CASE UNCHANGED vars
    BY <1>10 DEF vars, OpenInv
<1> QED
    BY <1>1, <1>2, <1>3, <1>4, <1>5, <1>6, <1>7, <1>8, <1>9, <1>10
       DEF Next, InitCA, IssueCertificate, RevokeCertificate

(* Which certificates verify depends on two files and the certificates. *)
LEMMA ValidFrame ==
    ASSUME UNCHANGED <<certFile, crlFile, issued>>
    PROVE  Valid' = Valid
BY DEF Valid, Verifies

LEMMA NothingIssued == ASSUME issued = << >> PROVE Valid = {}
BY DEF Valid

(* No certificate that verifies is revoked. *)
LEMMA ValidUnrevoked == ASSUME RevocationsKept PROVE Valid \subseteq Register!Unrevoked
BY DEF Valid, Verifies, RevocationsKept, Register!Unrevoked

(* init_ca shows nothing: there are no certificates yet. *)
LEMMA InitCAShows ==
    ASSUME NEW p \in Procs, TypeOK, IInv(p), InitCA(p)
    PROVE  UNCHANGED <<issued, revoked, Valid>>
<1>1. UNCHANGED <<issued, revoked>>
    BY DEF InitCA, BeginInit, InitKey, InitCert, InitCRL, InitSerial, InitLog, others
<1>2. CASE BeginInit(p)
    BY <1>1, <1>2, ValidFrame DEF BeginInit, files
<1>3. CASE ~BeginInit(p)
  <2>1. pc[p] \in InitSteps
      BY <1>3 DEF InitCA, InitKey, InitCert, InitCRL, InitSerial, InitLog, InitSteps
  <2>2. issued = << >>
      BY <2>1 DEF IInv, Phases
  <2>3. Valid = {} /\ Valid' = {}
    <3>1. issued' = << >>
        BY <1>1, <2>2
    <3> QED
        BY <2>2, <3>1 DEF Valid
  <2> QED
      BY <1>1, <2>3
<1> QED
    BY <1>2, <1>3

(* issue_certificate shows one step, when it signs. *)
LEMMA IssueShows ==
    ASSUME NEW p \in Procs, TypeOK, IInv(p), IInv(p)', IssueCertificate(p)
    PROVE  Register!Issue \/ UNCHANGED <<issued, revoked, Valid>>
<1>1. UNCHANGED <<certFile, crlFile, revoked>>
    BY DEF IssueCertificate, BeginIssue, IssueKey, IssueCert, IssueSerial, SaveSerial, Sign,
           files, others
<1>2. CASE UNCHANGED issued
    BY <1>1, <1>2, ValidFrame
<1>3. CASE issued' # issued
  <2> DEFINE c == [key |-> job[p].priv, serial |-> job[p].serial]
  <2>1. pc[p] = "sign" /\ issued' = Append(issued, c)
      BY <1>3 DEF IssueCertificate, BeginIssue, IssueKey, IssueCert, IssueSerial,
                  SaveSerial, Sign, others
  <2>2. c \in [key : Nat, serial : Nat]
      BY JobType DEF Job
  <2>3. c.serial = job[p].serial
      OBVIOUS
  <2> HIDE DEF c
  <2>4. issued \in Seq([key : Nat, serial : Nat])
      BY DEF TypeOK
  <2>5. /\ Len(issued) \in Nat
        /\ Len(issued') = Len(issued) + 1
        /\ DOMAIN issued = 1 .. Len(issued)
        /\ DOMAIN issued' = 1 .. Len(issued')
        /\ issued'[Len(issued')] = c
        /\ \A i \in DOMAIN issued : issued'[i] = issued[i]
      BY <2>1, <2>2, <2>4
  <2>6. Register!NewSerial(c)
      BY <2>1, <2>3 DEF IInv, Serials, Register!NewSerial
  <2>7. \E d \in {issued'[i] : i \in DOMAIN issued'} :
            Register!NewSerial(d) /\ issued' = Append(issued, d)
    <3>1. Len(issued') \in DOMAIN issued'
        BY <2>5
    <3>2. c \in {issued'[i] : i \in DOMAIN issued'}
        BY <2>5, <3>1
    <3> QED
        BY <2>1, <2>6, <3>2
  <2>8. Valid' = Valid \/ Valid' = Valid \cup {Len(issued')}
    <3>1. \A d : Verifies(d)' <=> Verifies(d)
        BY <1>1 DEF Verifies
    <3>2. Valid' = {i \in DOMAIN issued' : Verifies(issued'[i])}
        BY <3>1 DEF Valid
    <3>3. DOMAIN issued' = DOMAIN issued \cup {Len(issued')}
        BY <2>5
    <3>4. Len(issued') \notin DOMAIN issued
        BY <2>5
    <3>5. ASSUME Verifies(c) PROVE Valid' = Valid \cup {Len(issued')}
        BY <2>5, <3>2, <3>3, <3>4, <3>5 DEF Valid
    <3>6. ASSUME ~Verifies(c) PROVE Valid' = Valid
        BY <2>5, <3>2, <3>3, <3>4, <3>6 DEF Valid
    <3> QED
        BY <3>5, <3>6
  <2>9. Valid' \subseteq Register!Unrevoked'
    <3>1. RevocationsKept'
        BY DEF IInv
    <3> QED
        BY <3>1 DEF Valid, Verifies, RevocationsKept, Register!Unrevoked
  <2> QED
      BY <1>1, <2>7, <2>8, <2>9 DEF Register!Issue
<1> QED
    BY <1>2, <1>3

(* revoke_certificate shows up to three: the list cannot be read, can be   *)
(* read again, and the revocation is acknowledged.                         *)
LEMMA RevokeShows ==
    ASSUME NEW p \in Procs, TypeOK, IInv(p), IInv(p)', OpenInv(p), RevokeCertificate(p)
    PROVE  Register!Next \/ UNCHANGED <<issued, revoked, Valid>>
<1> USE FileForms
<1>1. CASE BeginRevoke(p) \/ RevokeKey(p) \/ RevokeLoad(p)
    BY <1>1, ValidFrame DEF BeginRevoke, RevokeKey, RevokeLoad, files, others
<1>2. CASE SaveCRL(p)
  <2>1. pc[p] = "saveCRL" /\ UNCHANGED <<issued, revoked>>
      BY <1>2 DEF SaveCRL, others
  <2>2. CASE crlFile' = Torn
    <3>1. Valid' = {}
        BY <2>2 DEF Valid, Verifies
    <3> QED
        BY <2>1, <3>1 DEF Register!Next, Register!Suspend
  <2>3. CASE crlFile' # Torn
    <3>1. open[p]
        BY <1>2, <2>3 DEF SaveCRL, Write
    <3>2. crlFile = Torn
        BY <2>1, <3>1 DEF OpenInv
    <3>3. Valid = {}
        BY <3>2 DEF Valid, Verifies
    <3>4. Valid' \subseteq Register!Unrevoked
      <4>1. RevocationsKept'
          BY DEF IInv
      <4> QED
          BY <2>1, <4>1 DEF Valid, Verifies, RevocationsKept, Register!Unrevoked
    <3> QED
        BY <2>1, <3>3, <3>4 DEF Register!Next, Register!Resume
  <2> QED
      BY <2>2, <2>3
<1>3. CASE Acknowledge(p)
  <2>1. /\ pc[p] = "acknowledge"
        /\ revoked' = revoked \cup {job[p].serial}
        /\ UNCHANGED <<certFile, crlFile, issued>>
      BY <1>3 DEF Acknowledge, files
  <2>2. Valid' = Valid
      BY <2>1, ValidFrame
  <2>3. \A i \in Valid : issued[i].serial # job[p].serial
      BY <2>1 DEF IInv, Lists, Valid, Verifies
  <2>4. Valid' = {i \in Valid : issued[i].serial # job[p].serial}
      BY <2>2, <2>3
  <2>5. job[p].serial \in revoked'
      BY <2>1
  <2> QED
      BY <2>1, <2>4, <2>5 DEF Register!Next, Register!Revoke
<1> QED
    BY <1>1, <1>2, <1>3 DEF RevokeCertificate

(* One command at a time, killed anywhere: the detailed CA implements the  *)
(* abstract one.                                                           *)
THEOREM CAImplementsRegister ==
    ASSUME NEW q, Procs = {q}
    PROVE  Spec => ImplementsRegister
<1>0. q \in Procs
    OBVIOUS
<1>1. Init => Register!Init
    BY NothingIssued DEF Init, Register!Init
<1>2. ASSUME TypeOK, IInv(q), IInv(q)', OpenInv(q), [Next]_vars
      PROVE  [Register!Next]_<<issued, revoked, Valid>>
  <2>1. CASE InitCA(q)
      BY <1>0, <1>2, <2>1, InitCAShows
  <2>2. CASE IssueCertificate(q)
      BY <1>0, <1>2, <2>2, IssueShows DEF Register!Next
  <2>3. CASE RevokeCertificate(q)
      BY <1>0, <1>2, <2>3, RevokeShows
  <2>4. CASE Interrupt(q)
      BY <2>4, ValidFrame DEF Interrupt, files
  <2>5. CASE UNCHANGED vars
      BY <2>5, ValidFrame DEF vars
  <2> QED
      BY <1>2, <2>1, <2>2, <2>3, <2>4, <2>5 DEF Next
<1>3. Init => OpenInv(q)
    BY <1>0, InitialOpen
<1>4. TypeOK /\ OpenInv(q) /\ [Next]_vars => OpenInv(q)'
    BY StepOpen
<1>5. Spec => []TypeOK /\ []IInv(q)
    BY CATypeCorrect, InvCorrect, PTL
<1> QED
    BY <1>1, <1>2, <1>3, <1>4, <1>5, PTL DEF Spec, ImplementsRegister, Register!Spec

-----------------------------------------------------------------------------
(* An initialized CA is usable, when nothing was interrupted.              *)

(* The file under an open write is torn. *)
OpenIsTorn(p) ==
    /\ open[p] => pc[p] \in WriteSteps
    /\ open[p] /\ pc[p] = "initKey" => keyFile = Torn
    /\ open[p] /\ pc[p] = "initCert" => certFile = Torn
    /\ open[p] /\ pc[p] \in {"initCRL", "saveCRL"} => crlFile = Torn
    /\ open[p] /\ pc[p] \in {"initSerial", "saveSerial"} => serialFile = Torn

(* init_ca has finished the files before the one it is at; whoever runs    *)
(* afterwards finds all four, apart from the one it writes.                *)
FilesSoFar(p) ==
    /\ pc[p] = "initKey" => ~Exists(certFile)
    /\ pc[p] = "initCert" /\ ~open[p] => ~Exists(certFile)
    /\ pc[p] \in {"initCert", "initCRL", "initSerial", "initLog"} => Legible(keyFile)
    /\ pc[p] \in {"initCRL", "initSerial", "initLog"} => Legible(certFile)
    /\ pc[p] \in {"initSerial", "initLog"} => Legible(crlFile)
    /\ pc[p] = "initLog" => Legible(serialFile)
    /\ pc[p] \notin InitSteps /\ Exists(certFile) =>
          /\ Legible(keyFile) /\ Legible(certFile)
          /\ (pc[p] = "saveCRL" /\ open[p]) \/ Legible(crlFile)
          /\ (pc[p] = "saveSerial" /\ open[p]) \/ Legible(serialFile)

UsableInv(p) == ~interrupted => OpenIsTorn(p) /\ FilesSoFar(p)

(* A step of p that writes no file and is about none. *)
LEMMA UsableFrame ==
    ASSUME NEW p \in Procs, UsableInv(p), UNCHANGED <<files, open, interrupted>>,
           pc[p] \notin WriteSteps,
           \/ pc[p] = "initLog" /\ pc'[p] = "idle"
           \/ pc[p] \notin InitSteps /\ pc'[p] \notin InitSteps
           \/ pc'[p] = "initKey" /\ ~Exists(certFile)
    PROVE  UsableInv(p)'
<1>1. UNCHANGED <<keyFile, certFile, crlFile, serialFile>>
    BY DEF files
<1> QED
    BY <1>1 DEF UsableInv, OpenIsTorn, FilesSoFar, WriteSteps, InitSteps

LEMMA InitialUsable == ASSUME NEW p \in Procs, Init PROVE UsableInv(p)
BY FileForms DEF Init, UsableInv, OpenIsTorn, FilesSoFar, InitSteps

LEMMA InitCAUsable ==
    ASSUME NEW p \in Procs, TypeOK, UsableInv(p), InitCA(p)
    PROVE  UsableInv(p)'
<1> USE FileForms
<1>0. UNCHANGED interrupted
    BY DEF InitCA, BeginInit, InitKey, InitCert, InitCRL, InitSerial, InitLog, others
<1> SUFFICES ASSUME ~interrupted, OpenIsTorn(p), FilesSoFar(p)
             PROVE  OpenIsTorn(p)' /\ FilesSoFar(p)'
    BY <1>0 DEF UsableInv
<1>1. CASE BeginInit(p)
  <2>1. /\ pc[p] = "idle" /\ pc'[p] = "initKey" /\ ~Exists(certFile)
        /\ UNCHANGED <<files, open>>
      BY <1>1 DEF BeginInit, GoTo, TypeOK
  <2> QED
      BY <1>0, <2>1, UsableFrame DEF UsableInv, WriteSteps, InitSteps
<1>2. CASE InitKey(p)
  <2>1. pc[p] = "initKey" /\ UNCHANGED <<certFile, crlFile, serialFile>>
      BY <1>2 DEF InitKey
  <2>2. \/ ~open[p] /\ open'[p] /\ pc'[p] = pc[p] /\ keyFile' = Torn
        \/ open[p] /\ ~open'[p] /\ pc'[p] = "initCert" /\ keyFile' = Full(job[p].priv)
    <3>1. open[p] => keyFile = Torn
        BY <2>1 DEF OpenIsTorn
    <3>2. Write(p, keyFile, job[p].priv, "initCert")
        BY <1>2 DEF InitKey
    <3> QED
        BY <3>1, <3>2, PlaceType DEF Write, GoTo
  <2> QED
      BY <2>1, <2>2 DEF OpenIsTorn, FilesSoFar, WriteSteps, InitSteps
<1>3. CASE InitCert(p)
  <2>1. pc[p] = "initCert" /\ UNCHANGED <<keyFile, crlFile, serialFile>>
      BY <1>3 DEF InitCert
  <2>2. CASE Write(p, certFile, job[p].priv, "initCRL")
    <3>1. \/ ~open[p] /\ open'[p] /\ pc'[p] = pc[p] /\ certFile' = Torn
          \/ /\ open[p] /\ ~open'[p] /\ pc'[p] = "initCRL"
             /\ certFile' = Full(job[p].priv)
      <4>1. open[p] => certFile = Torn
          BY <2>1 DEF OpenIsTorn
      <4> QED
          BY <2>2, <4>1, PlaceType DEF Write, GoTo
    <3> QED
        BY <2>1, <3>1 DEF OpenIsTorn, FilesSoFar, WriteSteps, InitSteps
  <2>3. CASE ~open[p] /\ End(p) /\ UNCHANGED <<certFile, open>>
    <3>1. pc'[p] = "idle"
        BY <2>3, EndAt
    <3> QED
        BY <2>1, <2>3, <3>1 DEF OpenIsTorn, FilesSoFar, WriteSteps, InitSteps
  <2> QED
      BY <1>3, <2>2, <2>3 DEF InitCert
<1>4. CASE InitCRL(p)
  <2>1. pc[p] = "initCRL" /\ UNCHANGED <<keyFile, certFile, serialFile>>
      BY <1>4 DEF InitCRL
  <2>2. \/ ~open[p] /\ open'[p] /\ pc'[p] = pc[p] /\ crlFile' = Torn
        \/ open[p] /\ ~open'[p] /\ pc'[p] = "initSerial" /\ crlFile' = Full({})
    <3>1. open[p] => crlFile = Torn
        BY <2>1 DEF OpenIsTorn
    <3>2. Write(p, crlFile, {}, "initSerial")
        BY <1>4 DEF InitCRL
    <3> QED
        BY <3>1, <3>2, PlaceType DEF Write, GoTo
  <2> QED
      BY <2>1, <2>2 DEF OpenIsTorn, FilesSoFar, WriteSteps, InitSteps
<1>5. CASE InitSerial(p)
  <2>1. pc[p] = "initSerial" /\ UNCHANGED <<keyFile, certFile, crlFile>>
      BY <1>5 DEF InitSerial
  <2>2. \/ ~open[p] /\ open'[p] /\ pc'[p] = pc[p] /\ serialFile' = Torn
        \/ open[p] /\ ~open'[p] /\ pc'[p] = "initLog" /\ serialFile' = Full(FirstSerial)
    <3>1. open[p] => serialFile = Torn
        BY <2>1 DEF OpenIsTorn
    <3>2. Write(p, serialFile, FirstSerial, "initLog")
        BY <1>5 DEF InitSerial
    <3> QED
        BY <3>1, <3>2, PlaceType DEF Write, GoTo
  <2> QED
      BY <2>1, <2>2 DEF OpenIsTorn, FilesSoFar, WriteSteps, InitSteps
<1>6. CASE InitLog(p)
  <2>1. pc[p] = "initLog" /\ pc'[p] = "idle" /\ UNCHANGED <<files, open>>
      BY <1>6, EndAt DEF InitLog
  <2> QED
      BY <1>0, <2>1, UsableFrame DEF UsableInv, WriteSteps, InitSteps
<1> QED
    BY <1>1, <1>2, <1>3, <1>4, <1>5, <1>6 DEF InitCA

LEMMA UseUsable ==
    ASSUME NEW p \in Procs, TypeOK, UsableInv(p), Phases(p),
           IssueCertificate(p) \/ RevokeCertificate(p)
    PROVE  UsableInv(p)'
<1> USE FileForms
<1>0. UNCHANGED interrupted
    BY DEF IssueCertificate, BeginIssue, IssueKey, IssueCert, IssueSerial, SaveSerial, Sign,
           RevokeCertificate, BeginRevoke, RevokeKey, RevokeLoad, SaveCRL, Acknowledge, others
<1>1. CASE BeginIssue(p) \/ BeginRevoke(p)
  <2>1. /\ pc[p] = "idle" /\ pc'[p] \in {"issueKey", "revokeKey"}
        /\ UNCHANGED <<files, open>>
      BY <1>1 DEF BeginIssue, BeginRevoke, GoTo, TypeOK
  <2> QED
      BY <1>0, <2>1, UsableFrame DEF WriteSteps, InitSteps
<1>2. CASE IssueKey(p) \/ IssueCert(p) \/ IssueSerial(p) \/ RevokeKey(p) \/ RevokeLoad(p)
  <2>1. /\ pc[p] \in {"issueKey", "issueCert", "issueSerial", "revokeKey", "revokeLoad"}
        /\ UNCHANGED <<files, open>>
      BY <1>2 DEF IssueKey, IssueCert, IssueSerial, RevokeKey, RevokeLoad
  <2>2. pc'[p] \in {"idle", "issueCert", "issueSerial", "saveSerial", "revokeLoad", "saveCRL"}
    <3>1. CASE IssueKey(p)
        BY <3>1, ReadKeyAt DEF IssueKey
    <3>2. CASE IssueCert(p)
        BY <3>2, ReadAt DEF IssueCert
    <3>3. CASE IssueSerial(p)
        BY <3>3, ReadAt DEF IssueSerial
    <3>4. CASE RevokeKey(p)
        BY <3>4, ReadKeyAt DEF RevokeKey
    <3>5. CASE RevokeLoad(p)
        BY <3>5, ReadAt DEF RevokeLoad
    <3> QED
        BY <1>2, <3>1, <3>2, <3>3, <3>4, <3>5
  <2> QED
      BY <1>0, <2>1, <2>2, UsableFrame DEF WriteSteps, InitSteps
<1>3. CASE Sign(p) \/ Acknowledge(p)
  <2>1. /\ pc[p] \in {"sign", "acknowledge"} /\ pc'[p] = "idle"
        /\ UNCHANGED <<files, open>>
      BY <1>3, EndAt DEF Sign, Acknowledge
  <2> QED
      BY <1>0, <2>1, UsableFrame DEF WriteSteps, InitSteps
<1>4. CASE SaveSerial(p)
  <2> SUFFICES ASSUME ~interrupted, OpenIsTorn(p), FilesSoFar(p)
               PROVE  OpenIsTorn(p)' /\ FilesSoFar(p)'
      BY <1>0 DEF UsableInv
  <2>1. /\ pc[p] = "saveSerial" /\ UNCHANGED <<keyFile, certFile, crlFile>>
        /\ Exists(certFile)
      BY <1>4 DEF SaveSerial, Phases, UseSteps
  <2>2. \/ ~open[p] /\ open'[p] /\ pc'[p] = pc[p] /\ serialFile' = Torn
        \/ open[p] /\ ~open'[p] /\ pc'[p] = "sign" /\ serialFile' = Full(job[p].serial + 1)
    <3>1. open[p] => serialFile = Torn
        BY <2>1 DEF OpenIsTorn
    <3>2. Write(p, serialFile, job[p].serial + 1, "sign")
        BY <1>4 DEF SaveSerial
    <3> QED
        BY <3>1, <3>2, PlaceType DEF Write, GoTo
  <2> QED
      BY <2>1, <2>2 DEF OpenIsTorn, FilesSoFar, WriteSteps, InitSteps
<1>5. CASE SaveCRL(p)
  <2> SUFFICES ASSUME ~interrupted, OpenIsTorn(p), FilesSoFar(p)
               PROVE  OpenIsTorn(p)' /\ FilesSoFar(p)'
      BY <1>0 DEF UsableInv
  <2>1. /\ pc[p] = "saveCRL" /\ UNCHANGED <<keyFile, certFile, serialFile>>
        /\ Exists(certFile)
      BY <1>5 DEF SaveCRL, Phases, UseSteps
  <2>2. \/ ~open[p] /\ open'[p] /\ pc'[p] = pc[p] /\ crlFile' = Torn
        \/ open[p] /\ ~open'[p] /\ pc'[p] = "acknowledge" /\ crlFile' = Full(job[p].crl)
    <3>1. open[p] => crlFile = Torn
        BY <2>1 DEF OpenIsTorn
    <3>2. Write(p, crlFile, job[p].crl, "acknowledge")
        BY <1>5 DEF SaveCRL
    <3> QED
        BY <3>1, <3>2, PlaceType DEF Write, GoTo
  <2> QED
      BY <2>1, <2>2 DEF OpenIsTorn, FilesSoFar, WriteSteps, InitSteps
<1> QED
    BY <1>1, <1>2, <1>3, <1>4, <1>5 DEF IssueCertificate, RevokeCertificate

(* One command at a time, none interrupted: a CA that counts as            *)
(* initialized has all four files between two commands, also after a       *)
(* command that raised.                                                    *)
THEOREM CAInitializedIsUsable ==
    ASSUME NEW q, Procs = {q}
    PROVE  Spec => []InitializedIsUsable
<1>0. q \in Procs
    OBVIOUS
<1>1. Init => UsableInv(q)
    BY <1>0, InitialUsable
<1>2. ASSUME TypeOK, IInv(q), UsableInv(q), [Next]_vars
      PROVE  UsableInv(q)'
  <2>1. CASE InitCA(q)
      BY <1>0, <1>2, <2>1, InitCAUsable
  <2>2. CASE IssueCertificate(q) \/ RevokeCertificate(q)
      BY <1>0, <1>2, <2>2, UseUsable DEF IInv
  <2>3. CASE Interrupt(q)
      BY <2>3 DEF Interrupt, UsableInv
  <2>4. CASE UNCHANGED vars
      BY <1>2, <2>4 DEF vars, UsableInv, OpenIsTorn, FilesSoFar
  <2> QED
      BY <1>2, <2>1, <2>2, <2>3, <2>4 DEF Next
<1>3. UsableInv(q) => InitializedIsUsable
    BY <1>0 DEF UsableInv, FilesSoFar, InitializedIsUsable, InitSteps
<1> QED
    BY <1>1, <1>2, <1>3, CATypeCorrect, InvCorrect, PTL DEF Spec
=============================================================================
