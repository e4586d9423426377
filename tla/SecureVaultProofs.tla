------------------------- MODULE SecureVaultProofs -------------------------
(***************************************************************************)
(* What holds of the verdicts of the SecureVault commands for any number   *)
(* of CA directories, key pairs and contents, however long the             *)
(* certificates live and wherever a command is interrupted.                *)
(*                                                                         *)
(* The argument has two halves.  One is about the commands that read: each *)
(* is a list of checks, and what a verdict says follows from the checks    *)
(* that let pass (VerifySays).  The other is about the commands that       *)
(* write: every file that parses is what one of them made (VaultInv).      *)
(***************************************************************************)
EXTENDS SecureVault, TLAPS

-----------------------------------------------------------------------------
(* Lists of checks.                                                        *)

(* A list of two checks, as it is meant. *)
LEMMA OrElse == \A r, s : (r ?? s) = IF r = "valid" THEN s ELSE r
BY DEF ??

(* A list lets pass when all its checks do. *)
LEMMA AllPass == \A r, s : (r ?? s) = "valid" <=> r = "valid" /\ s = "valid"
BY OrElse

(* The verdict of a list is the verdict of one of its checks. *)
LEMMA SomeVerdict == \A r, s : (r ?? s) = r \/ (r ?? s) = s
BY OrElse

(* A check lets pass when its condition does not hold. *)
LEMMA Passes == ASSUME NEW condition \in BOOLEAN, NEW verdict, verdict # "valid"
                PROVE  When(condition, verdict) = "valid" <=> ~condition
BY DEF When

-----------------------------------------------------------------------------
(* What a verdict says, whatever the file it is about.                     *)

(* A certificate found valid is within its period, not on the list and     *)
(* sealed by the CA over what it says.                                     *)
LEMMA CertificateSays ==
    ASSUME NEW c, NEW g, NEW crl, VerifyCertificate(c, g, crl) = "valid"
    PROVE  /\ ~(now > c.not_after) /\ ~(now < c.not_before)
           /\ ~(crl.given /\ c.serial \in crl.serials)
           /\ c.seal.by = g /\ c.seal.over = Body(c)
BY AllPass DEF VerifyCertificate, When, RsaVerify

(* A signature found valid has such a certificate, was made by the         *)
(* certified key, and over the content.                                    *)
LEMMA MessageSays ==
    ASSUME NEW content, NEW sig, NEW g, NEW crl,
           VerifyMessageSignature(content, sig, g, crl) = "valid"
    PROVE  /\ VerifyCertificate(sig.signer_cert, g, crl) = "valid"
           /\ sig.by = sig.signer_cert.pub /\ sig.over = content
<1>1. MapCertFailureReason(VerifyCertificate(sig.signer_cert, g, crl)) = "valid"
  BY AllPass DEF VerifyMessageSignature
<1>2. ~RsaVerify(Kind(sig, "signature"), sig, sig.signer_cert.pub, content) => FALSE
  BY AllPass DEF VerifyMessageSignature, When
<1> QED
  BY <1>1, <1>2 DEF MapCertFailureReason, RsaVerify

(* The same of verify: the file is there and parses. *)
LEMMA VerifySays ==
    ASSUME NEW h, NEW g, NEW file, Verify(h, g, file) = "valid"
    PROVE  LET c == file.is.signer_cert
           IN  /\ file.state \notin {"absent", "torn"}
               /\ ~(now > c.not_after) /\ ~(now < c.not_before)
               /\ ca[h].cert.state = "full" =>
                     ca[h].crl.state # "torn" /\ c.serial \notin ca[h].crl.is
               /\ c.seal.by = g /\ c.seal.over = Body(c)
               /\ file.is.by = c.pub /\ file.is.over = docFile.is
<1>1. VerifyMessageSignature(docFile.is, file.is, g, LocalCRL(h)) = "valid"
  BY AllPass DEF Verify, VerifyFileSignature
<1>2. file.state \notin {"absent", "torn"}
  BY AllPass DEF Verify, When
<1>3. ca[h].cert.state = "full" => ca[h].crl.state # "torn"
  BY AllPass DEF Verify, When
<1>4. (LocalCRL(h).given <=> ca[h].cert.state = "full") /\ LocalCRL(h).serials = ca[h].crl.is
  BY Zenon DEF LocalCRL
<1>5. VerifyCertificate(file.is.signer_cert, g, LocalCRL(h)) = "valid"
  BY <1>1, MessageSays
<1>6. ~(LocalCRL(h).given /\ file.is.signer_cert.serial \in LocalCRL(h).serials)
  BY <1>5, CertificateSays
<1>7. /\ file.is.by = file.is.signer_cert.pub /\ file.is.over = docFile.is
  BY <1>1, MessageSays
<1>8. LET c == file.is.signer_cert
      IN  /\ ~(now > c.not_after) /\ ~(now < c.not_before)
          /\ c.seal.by = g /\ c.seal.over = Body(c)
  BY <1>5, CertificateSays
<1> QED
  BY <1>2, <1>3, <1>4, <1>6, <1>7, <1>8

-----------------------------------------------------------------------------
(* What the commands leave behind.                                         *)

(* What a file holds: nothing, part of a write, or one of V. *)
FileOf(V, d) == {Absent(d), Torn(d)} \cup {Full(v) : v \in V}

CAFiles == [cert   : FileOf({0}, 0),
            crl    : FileOf(SUBSET Revocable, {}),
            serial : FileOf(FirstSerial .. MaxSerial + 1, 0)]

Bodies == {b \in [serial : FirstSerial .. MaxSerial, pub : Pairs, key_type : {"rsa", "ecc"},
                  not_before : Nat, not_after : Nat] : b.not_before < b.not_after}

(* The certificates that a CA signed, the signatures over a content by a   *)
(* pair with any of them, and the encryptions.                             *)
Certificates == {SignCertificate(i[2], i[1]) : i \in issued}
Signatures   == {SignMessage(s[2], s[1], c) : s \in signed, c \in Certificates}
Encryptions  == {[to |-> k, plaintext |-> v, bad |-> NoDamage] : k \in ECCPairs, v \in Contents}

(* The inductive invariant: a file that parses is what a command wrote. *)
VaultInv ==
    /\ now \in 0 .. MaxNow
    /\ ca \in [Homes -> CAFiles]
    /\ issued \subseteq Homes \X Bodies
    /\ signed \subseteq RSAPairs \X Contents
    /\ docFile \in {Absent("empty")} \cup {Full(v) : v \in Contents}
    /\ certFile \in FileOf(Certificates, NoCert)
    /\ sigFile \in FileOf(Signatures, NoSig)
    /\ encFile \in FileOf(Encryptions, NoMsg)

(* What a file may hold only grows with the set. *)
LEMMA FileOfGrows ==
    ASSUME NEW V, NEW W, V \subseteq W, NEW d, NEW f \in FileOf(V, d)
    PROVE  f \in FileOf(W, d)
BY DEF FileOf, Full

(* A write leaves what was written or a part of it. *)
LEMMA WrittenIsFile ==
    ASSUME NEW V, NEW v \in V, NEW d, NEW f \in Written(v, d)
    PROVE  f \in FileOf(V, d)
BY DEF FileOf, Written

(* A file that is read without an error holds one of V. *)
LEMMA FullIs ==
    ASSUME NEW V, NEW d, NEW f \in FileOf(V, d), f.state = "full"
    PROVE  f.is \in V
BY DEF FileOf, Full, Absent, Torn

(* A file that is neither absent nor torn is full. *)
LEMMA ThreeStates ==
    ASSUME NEW V, NEW d, NEW f \in FileOf(V, d)
    PROVE  \/ f = Absent(d) \/ f = Torn(d) 
           \/ f.state = "full" /\ f.is \in V /\ f = Full(f.is)
BY DEF FileOf, Full, Absent, Torn

(* A certificate once signed stays one a CA signed, and so a signature.    *)
LEMMA OnceSigned ==
    ASSUME issued \subseteq issued', signed \subseteq signed'
    PROVE  Certificates \subseteq Certificates' /\ Signatures \subseteq Signatures'
<1>1. Certificates \subseteq Certificates'
  BY DEF Certificates, SignCertificate, Certificate
<1>2. Signatures \subseteq Signatures'
  BY <1>1 DEF Signatures, SignMessage
<1> QED
  BY <1>1, <1>2

-----------------------------------------------------------------------------
(* The invariant, command by command.                                      *)

LEMMA VaultInit == Init => VaultInv
<1> SUFFICES ASSUME Init PROVE VaultInv
  OBVIOUS
<1>1. NoCA \in CAFiles
  BY DEF NoCA, CAFiles, FileOf
<1>2. certFile \in FileOf(Certificates, NoCert)
  BY DEF Init, FileOf
<1>3. sigFile \in FileOf(Signatures, NoSig)
  BY DEF Init, FileOf
<1>4. encFile \in FileOf(Encryptions, NoMsg)
  BY DEF Init, FileOf
<1> QED
  BY <1>1, <1>2, <1>3, <1>4, BoundsAssumption DEF Init, VaultInv

(* init-ca leaves CA files in one of the stages of their making. *)
LEMMA VaultInitCA ==
    ASSUME VaultInv, NEW h \in Homes, InitCA(h)
    PROVE  VaultInv'
<1>1. /\ NoCA \in CAFiles
      /\ [cert |-> Full(0), crl |-> Full({}), serial |-> Full(FirstSerial)] \in CAFiles
      /\ [NoCA EXCEPT !.cert = Torn(0)] \in CAFiles
      /\ [NoCA EXCEPT !.cert = Full(0)] \in CAFiles
      /\ [NoCA EXCEPT !.cert = Full(0), !.crl = Torn({})] \in CAFiles
      /\ [NoCA EXCEPT !.cert = Full(0), !.crl = Full({})] \in CAFiles
      /\ [NoCA EXCEPT !.cert = Full(0), !.crl = Full({}), !.serial = Torn(0)] \in CAFiles
  <2>1. /\ Absent(0) \in FileOf({0}, 0) /\ Torn(0) \in FileOf({0}, 0) /\ Full(0) \in FileOf({0}, 0)
    BY DEF FileOf
  <2>2. /\ Absent({}) \in FileOf(SUBSET Revocable, {}) /\ Torn({}) \in FileOf(SUBSET Revocable, {})
        /\ Full({}) \in FileOf(SUBSET Revocable, {})
    BY DEF FileOf
  <2>3. /\ Absent(0) \in FileOf(FirstSerial .. MaxSerial + 1, 0)
        /\ Torn(0) \in FileOf(FirstSerial .. MaxSerial + 1, 0)
        /\ Full(FirstSerial) \in FileOf(FirstSerial .. MaxSerial + 1, 0)
    BY SerialAssumption, BoundsAssumption DEF FileOf
  <2> QED
    BY <2>1, <2>2, <2>3 DEF NoCA, CAFiles
<1>2. PICK files \in CAFiles : ca' = [ca EXCEPT ![h] = files]
  BY <1>1, Zenon DEF InitCA
<1>3. ca' \in [Homes -> CAFiles]
  BY <1>2 DEF VaultInv
<1>4. UNCHANGED <<now, docFile, certFile, sigFile, encFile, issued, signed>>
  BY DEF InitCA
<1> QED
  BY <1>3, <1>4 DEF VaultInv, Certificates, Signatures

(* issue-cert spends a number it was given, and writes a certificate the   *)
(* CA signed over it.                                                      *)
LEMMA VaultIssueCert ==
    ASSUME VaultInv, NEW h \in Homes, NEW k \in Pairs, IssueCert(h, k)
    PROVE  VaultInv'
<1> DEFINE n    == ca[h].serial.is
           body == CreateCert(k, n)
<1>1. ca[h] \in CAFiles /\ ca[h].serial \in FileOf(FirstSerial .. MaxSerial + 1, 0)
  BY DEF VaultInv, CAFiles
<1>2. n \in FirstSerial .. MaxSerial
  <2>1. n \in FirstSerial .. MaxSerial + 1
    BY <1>1, FullIs DEF IssueCert
  <2> QED
    BY <2>1, SerialAssumption, BoundsAssumption DEF IssueCert
<1>3. body \in Bodies
  BY <1>2, SerialAssumption, BoundsAssumption DEF CreateCert, KeyType, Bodies, VaultInv
<1>4. /\ ca' \in [Homes -> CAFiles]
      /\ UNCHANGED <<now, docFile, sigFile, encFile, signed>>
      /\ \/ issued' = issued \cup {<<h, body>>} /\ certFile' \in Written(SignCertificate(body, h), NoCert)
         \/ UNCHANGED <<issued, certFile>>
  <2>1. Full(n + 1) \in FileOf(FirstSerial .. MaxSerial + 1, 0)
    BY <1>2, SerialAssumption, BoundsAssumption DEF FileOf
  <2>2. Torn(0) \in FileOf(FirstSerial .. MaxSerial + 1, 0)
    BY DEF FileOf
  <2>3. \A f \in FileOf(FirstSerial .. MaxSerial + 1, 0) :
            ca' = [ca EXCEPT ![h].serial = f] => ca' \in [Homes -> CAFiles]
    BY <1>1 DEF VaultInv, CAFiles
  <2> QED
    BY <2>1, <2>2, <2>3 DEF IssueCert
<1>5. issued' \subseteq Homes \X Bodies /\ issued \subseteq issued'
  BY <1>3, <1>4 DEF VaultInv
<1>6. Certificates \subseteq Certificates' /\ Signatures \subseteq Signatures'
  BY <1>4, <1>5, OnceSigned
<1>7. certFile' \in FileOf(Certificates, NoCert)'
  <2>1. CASE UNCHANGED <<issued, certFile>>
    BY <2>1 DEF VaultInv, Certificates
  <2>2. CASE /\ issued' = issued \cup {<<h, body>>}
             /\ certFile' \in Written(SignCertificate(body, h), NoCert)
    <3>1. \A i \in issued' : SignCertificate(i[2], i[1]) \in Certificates'
      BY DEF Certificates, SignCertificate, Certificate, NoDamage
    <3>2. SignCertificate(body, h) \in Certificates'
      <4> HIDE DEF body
      <4>1. <<h, body>> \in issued' /\ <<h, body>>[1] = h /\ <<h, body>>[2] = body
        BY <2>2
      <4> QED
        BY <3>1, <4>1
    <3> QED
      BY <2>2, <3>2, WrittenIsFile
  <2> QED
    BY <1>4, <2>1, <2>2
<1>8. sigFile' \in FileOf(Signatures, NoSig)'
  BY <1>4, <1>6, FileOfGrows DEF VaultInv
<1> QED
  BY <1>4, <1>5, <1>7, <1>8 DEF VaultInv

(* revoke-cert writes the list and nothing else. *)
LEMMA VaultRevokeCert ==
    ASSUME VaultInv, NEW h \in Homes, NEW s \in Revocable, RevokeCert(h, s)
    PROVE  VaultInv'
<1>1. ca[h] \in CAFiles /\ ca[h].crl \in FileOf(SUBSET Revocable, {})
  BY DEF VaultInv, CAFiles
<1>2. ca[h].crl.is \cup {s} \in SUBSET Revocable
  BY <1>1, FullIs DEF RevokeCert
<1>3. PICK f \in FileOf(SUBSET Revocable, {}) : ca' = [ca EXCEPT ![h].crl = f]
  BY <1>2, WrittenIsFile DEF RevokeCert
<1>4. ca' \in [Homes -> CAFiles]
  BY <1>1, <1>3 DEF VaultInv, CAFiles
<1>5. UNCHANGED <<now, docFile, certFile, sigFile, encFile, issued, signed>>
  BY DEF RevokeCert
<1> QED
  BY <1>4, <1>5 DEF VaultInv, Certificates, Signatures

(* What sign needs: an RSA key, a certificate that parses and a document. *)
LEMMA SignNeeds ==
    ASSUME VaultInv, NEW k \in Pairs, SignFile(k)
    PROVE  k \in RSAPairs /\ certFile.is \in Certificates /\ docFile.is \in Contents
<1>1. k \in RSAPairs /\ ReadErrors(certFile) = "valid" /\ docFile.state # "absent"
  BY AllPass DEF SignFile, SignOutcome, When
<1>2. certFile.state \notin {"absent", "torn"}
  BY <1>1, AllPass DEF ReadErrors, When
<1>3. certFile.is \in Certificates
  BY <1>2, ThreeStates DEF VaultInv, Absent, Torn
<1>4. docFile.is \in Contents
  BY <1>1 DEF VaultInv, Absent, Full
<1> QED
  BY <1>1, <1>3, <1>4

(* sign writes a signature by this key with that certificate. *)
LEMMA VaultSignFile ==
    ASSUME VaultInv, NEW k \in Pairs, SignFile(k)
    PROVE  VaultInv'
<1>1. k \in RSAPairs /\ certFile.is \in Certificates /\ docFile.is \in Contents
  BY SignNeeds
<1>2. /\ UNCHANGED <<now, ca, docFile, certFile, encFile, issued>>
      /\ signed' = signed \cup {<<k, docFile.is>>}
      /\ sigFile' \in Written(SignMessage(docFile.is, k, certFile.is), NoSig)
  BY DEF SignFile
<1>3. SignMessage(docFile.is, k, certFile.is) \in Signatures'
  <2>1. \A s \in signed', c \in Certificates' : SignMessage(s[2], s[1], c) \in Signatures'
    BY DEF Signatures, SignMessage, NoDamage
  <2>2. certFile.is \in Certificates'
    BY <1>1, <1>2 DEF Certificates
  <2>3. <<k, docFile.is>> \in signed'
    BY <1>2
  <2> QED
    BY <2>1, <2>2, <2>3
<1>4. sigFile' \in FileOf(Signatures, NoSig)'
  BY <1>2, <1>3, WrittenIsFile
<1>5. signed' \subseteq RSAPairs \X Contents
  BY <1>1, <1>2 DEF VaultInv
<1> QED
  BY <1>2, <1>4, <1>5 DEF VaultInv, Certificates

(* encrypt writes an encryption to the owner of an ECC certificate. *)
LEMMA VaultEncryptFile ==
    ASSUME VaultInv, EncryptFile
    PROVE  VaultInv'
<1>1. /\ EncryptMessage(certFile.is) = "valid" /\ docFile.state # "absent"
  BY AllPass DEF EncryptFile, EncryptOutcome, When
<1>2. certFile.is.pub \in ECCPairs
  <2>1. EcdhDeriveSharedSecret("ecc", PublicKey(certFile.is)) = "valid"
    BY <1>1, AllPass DEF EncryptMessage
  <2>2. PublicKey(certFile.is) = "good"
    BY <2>1, AllPass DEF EcdhDeriveSharedSecret, When
  <2> QED
    BY <2>2 DEF PublicKey
<1>3. docFile.is \in Contents
  BY <1>1 DEF VaultInv, Absent, Full
<1>4. encFile' \in FileOf(Encryptions, NoMsg)
  BY <1>2, <1>3, WrittenIsFile DEF EncryptFile, Encryptions
<1>5. UNCHANGED <<now, ca, docFile, certFile, sigFile, issued, signed>>
  BY DEF EncryptFile
<1> QED
  BY <1>4, <1>5 DEF VaultInv, Certificates, Signatures

(* decrypt writes a document back, or the first part of it. *)
LEMMA VaultDecrypt ==
    ASSUME VaultInv, NEW k \in Pairs, Decrypt(k)
    PROVE  VaultInv'
<1>1. ReadErrors(encFile) = "valid"
  BY AllPass DEF Decrypt, DecryptFile
<1>2. encFile.state \notin {"absent", "torn"}
  BY <1>1, AllPass DEF ReadErrors, When
<1>3. encFile.is \in Encryptions
  BY <1>2, ThreeStates DEF VaultInv, Absent, Torn
<1>4. encFile.is.plaintext \in Contents
  BY <1>3 DEF Encryptions
<1>5. docFile' \in {Full(v) : v \in Contents}
  BY <1>4, ContentsAssumption DEF Decrypt
<1>6. UNCHANGED <<now, ca, certFile, sigFile, encFile, issued, signed>>
  BY DEF Decrypt
<1> QED
  BY <1>5, <1>6 DEF VaultInv, Certificates, Signatures

(* Every step keeps the invariant. *)
LEMMA VaultNext == VaultInv /\ [Next]_vars => VaultInv'
<1> SUFFICES ASSUME VaultInv, [Next]_vars PROVE VaultInv'
  OBVIOUS
<1>1. ASSUME NEW h \in Homes, InitCA(h) PROVE VaultInv'
  BY <1>1, VaultInitCA
<1>2. ASSUME NEW h \in Homes, NEW k \in Pairs, IssueCert(h, k) PROVE VaultInv'
  BY <1>2, VaultIssueCert
<1>3. ASSUME NEW h \in Homes, NEW s \in Revocable, RevokeCert(h, s) PROVE VaultInv'
  BY <1>3, VaultRevokeCert
<1>4. ASSUME NEW k \in Pairs, SignFile(k) PROVE VaultInv'
  BY <1>4, VaultSignFile
<1>5. ASSUME NEW k \in Pairs, Decrypt(k) PROVE VaultInv'
  BY <1>5, VaultDecrypt
<1>6. CASE EncryptFile
  BY <1>6, VaultEncryptFile
<1>7. CASE Tick
  BY <1>7, BoundsAssumption DEF Tick, VaultInv, Certificates, Signatures
<1>8. CASE Edit
  BY <1>8 DEF Edit, VaultInv, Certificates, Signatures
<1>9. CASE UNCHANGED vars
  BY <1>9 DEF vars, VaultInv, Certificates, Signatures
<1> QED
  BY <1>1, <1>2, <1>3, <1>4, <1>5, <1>6, <1>7, <1>8, <1>9 DEF Next

(* A file that parses is what a command wrote, in every reachable state. *)
THEOREM VaultInductive == Spec => []VaultInv
BY VaultInit, VaultNext, PTL DEF Spec

(* A step keeps the signature file and remembers who refused it, or writes *)
(* the file and forgets. *)
LEMMA Condemns ==
    [Next]_vars => \/ sigFile' = sigFile /\ condemned' \subseteq condemned \cup Refused
                   \/ condemned' = {}
<1>1. \A k \in Pairs : SignFile(k) => condemned' = {}
  BY Zenon DEF SignFile
<1>2. \A k \in Pairs : Decrypt(k) => sigFile' = sigFile /\ Watch
  BY Zenon DEF Decrypt
<1>3. EncryptFile \/ Tick \/ Edit => sigFile' = sigFile /\ Watch
  BY DEF EncryptFile, Tick, Edit
<1>4. \A h \in Homes : InitCA(h) => sigFile' = sigFile /\ Watch
  BY Zenon DEF InitCA
<1>5. \A h \in Homes, k \in Pairs : IssueCert(h, k) => sigFile' = sigFile /\ Watch
  BY Zenon DEF IssueCert
<1>6. \A h \in Homes, s \in Revocable : RevokeCert(h, s) => sigFile' = sigFile /\ Watch
  BY Zenon DEF RevokeCert
<1>7. UNCHANGED vars => sigFile' = sigFile /\ condemned' = condemned
  BY DEF vars
<1> QED
  BY <1>1, <1>2, <1>3, <1>4, <1>5, <1>6, <1>7 DEF Next, Watch

(* What is remembered are pairs of a directory and a CA. *)
Remembered == condemned \subseteq Homes \X Homes

LEMMA VaultRemembers == Spec => []Remembered
<1>1. Init => Remembered
  BY DEF Init, Remembered
<1>2. Remembered /\ [Next]_vars => Remembered'
  BY Condemns DEF Remembered, Refused
<1> QED
  BY <1>1, <1>2, PTL DEF Spec

(* What is in a file that parses, and in the documents inside it. *)
LEMMA FilesHold ==
    ASSUME VaultInv
    PROVE  /\ certFile.is \in Certificates \cup {NoCert}
           /\ sigFile.is \in Signatures \cup {NoSig}
           /\ encFile.is \in Encryptions \cup {NoMsg}
           /\ docFile.is \in Contents
<1>1. \A V, d, f : f \in FileOf(V, d) => f.is \in V \cup {d}
  BY DEF FileOf, Full, Absent, Torn
<1>2. docFile.is \in Contents
  BY ContentsAssumption DEF VaultInv, Full, Absent
<1> QED
  BY <1>1, <1>2 DEF VaultInv

(* A certificate that a CA signed is sealed over what it says. *)
LEMMA Sealed ==
    ASSUME VaultInv, NEW c \in Certificates
    PROVE  /\ c.serial \in FirstSerial .. MaxSerial /\ c.pub \in Pairs
           /\ c.not_before \in Nat /\ c.not_after \in Nat /\ c.not_before < c.not_after
           /\ c.bad = NoDamage
           /\ c.seal.by \in Homes /\ c.seal.over = Body(c)
           /\ <<c.seal.by, Body(c)>> \in issued
<1>1. PICK i \in issued : c = SignCertificate(i[2], i[1])
  BY DEF Certificates
<1>2. i[1] \in Homes /\ i[2] \in Bodies /\ i = <<i[1], i[2]>>
  BY DEF VaultInv
<1>3. /\ c.serial = i[2].serial /\ c.pub = i[2].pub /\ c.not_before = i[2].not_before
      /\ c.not_after = i[2].not_after /\ c.key_type = i[2].key_type /\ c.bad = NoDamage
      /\ c.seal = [by |-> i[1], over |-> i[2]]
  BY <1>1 DEF SignCertificate, Certificate
<1>4. Body(c) = i[2]
  BY <1>2, <1>3 DEF Body, Bodies
<1> QED
  BY <1>2, <1>3, <1>4 DEF Bodies

(* The files hold what their types allow: numbers given out, pairs of the  *)
(* right kind, and no damage.                                              *)
THEOREM VaultTypeCorrect == Spec => []TypeOK
<1>1. VaultInv /\ Remembered => TypeOK
  <2> SUFFICES ASSUME VaultInv, Remembered PROVE TypeOK
    OBVIOUS
  <2>1. ASSUME NEW h \in Homes
        PROVE  /\ IsFile(ca[h].cert, {0})
               /\ IsFile(ca[h].crl, SUBSET Revocable)
               /\ IsFile(ca[h].serial, 0 .. MaxSerial + 1)
    <3>1. ca[h] \in CAFiles
      BY DEF VaultInv
    <3>2. \A V, W, d, f : V \subseteq W /\ d \in W /\ f \in FileOf(V, d) => IsFile(f, W)
      BY DEF FileOf, IsFile, Absent, Torn, Full
    <3>3. /\ FirstSerial .. MaxSerial + 1 \subseteq 0 .. MaxSerial + 1
          /\ 0 \in 0 .. MaxSerial + 1
      BY SerialAssumption, BoundsAssumption
    <3>4. IsFile(ca[h].cert, {0}) /\ IsFile(ca[h].crl, SUBSET Revocable)
      BY <3>1, <3>2 DEF CAFiles
    <3>5. IsFile(ca[h].serial, 0 .. MaxSerial + 1)
      BY <3>1, <3>2, <3>3 DEF CAFiles
    <3> QED
      BY <3>4, <3>5
  <2>2. ASSUME NEW c \in Certificates \cup {NoCert}
        PROVE  /\ c.serial \in 0 .. MaxSerial
               /\ c.pub \in Pairs \cup {Nobody}
               /\ c.seal.by \in Homes \cup {Nobody}
               /\ c.bad.kind = "good" <=> c.bad = NoDamage
    <3>1. CASE c = NoCert
      BY <3>1, BoundsAssumption DEF NoCert, Certificate, NoBody, NoSeal, NoDamage
    <3>2. CASE c \in Certificates
      <4>1. /\ c.serial \in FirstSerial .. MaxSerial /\ c.pub \in Pairs
            /\ c.bad = NoDamage /\ c.seal.by \in Homes
        BY <3>2, Sealed
      <4>2. c.serial \in 0 .. MaxSerial
        BY <4>1, SerialAssumption, BoundsAssumption
      <4>3. NoDamage.kind = "good"
        BY DEF NoDamage
      <4> QED
        BY <4>1, <4>2, <4>3
    <3> QED
      BY <3>1, <3>2
  <2>3. /\ sigFile.is.signer_cert \in Certificates \cup {NoCert}
        /\ sigFile.is.by \in RSAPairs \cup {Nobody}
    BY FilesHold DEF VaultInv, Signatures, SignMessage, NoSig
  <2>4. encFile.is.to \in ECCPairs \cup {Nobody}
    BY FilesHold DEF Encryptions, NoMsg
  <2> QED
    BY <2>1, <2>2, <2>3, <2>4, FilesHold DEF VaultInv, Remembered, TypeOK
<1> QED
  BY <1>1, VaultInductive, VaultRemembers, PTL

-----------------------------------------------------------------------------
(* What verify says.                                                       *)

(* No version of a signature has another seal, author or content. *)
LEMMA VersionsKeep ==
    ASSUME VaultInv, NEW file \in Versions(sigFile, SigVersions), file.state = "full"
    PROVE  /\ sigFile.is \in Signatures
           /\ file.is.by = sigFile.is.by /\ file.is.over = sigFile.is.over
           /\ file.is.signer_cert.seal = sigFile.is.signer_cert.seal
<1>1. sigFile.state = "full"
  BY DEF Versions
<1>2. sigFile.is \in Signatures
  BY <1>1, FullIs DEF VaultInv
<1>3. PICK s \in SigVersions(sigFile.is) : file.is = s
  BY <1>1 DEF Versions, Full
<1>4. PICK k \in RSAPairs, v \in Contents, c \in Certificates : sigFile.is = SignMessage(v, k, c)
  BY <1>2 DEF Signatures, VaultInv
<1>5. ASSUME NEW d \in CertVersions(c) PROVE d.seal = c.seal
  <2>1. PICK i \in issued : c = SignCertificate(i[2], i[1])
    BY DEF Certificates
  <2> QED
    BY <1>5, <2>1 DEF CertVersions, Marked, SignCertificate, Certificate
<1>6. sigFile.is.by = k /\ sigFile.is.over = v /\ sigFile.is.signer_cert = c
  BY <1>4 DEF SignMessage
<1>7. /\ s.by = k /\ s.over = v /\ s.signer_cert.seal = c.seal
  <2>1. CASE s \in Marked(sigFile.is, DamageOf(PayloadFields, {"signature"}))
    BY <1>4, <2>1 DEF Marked, SignMessage
  <2>2. CASE \E d \in CertVersions(c) : s = [sigFile.is EXCEPT !.signer_cert = d]
    BY <1>4, <1>5, <2>2 DEF SignMessage
  <2> QED
    BY <1>3, <1>6, <2>1, <2>2 DEF SigVersions
<1> QED
  BY <1>2, <1>3, <1>6, <1>7

(* Whatever is done to one field of a signature file, a "valid" from       *)
(* verify says that the CA signed the certificate in it, that the owner of *)
(* the key signed the document, that the period lasts, and that the number *)
(* is not revoked here.                                                    *)
THEOREM VaultValidIsSigned == Spec => []ValidIsSigned
<1>1. VaultInv => ValidIsSigned
  <2> SUFFICES ASSUME VaultInv, NEW h \in Homes, NEW g \in Homes,
                      NEW file \in Versions(sigFile, SigVersions),
                      Verify(h, g, file) = "valid"
               PROVE  LET c == file.is.signer_cert
                      IN  /\ <<g, Body(c)>> \in issued
                          /\ <<c.pub, docFile.is>> \in signed
                          /\ c.not_before <= now /\ now <= c.not_after
                          /\ ca[h].cert.state = "full" => c.serial \notin ca[h].crl.is
    BY DEF ValidIsSigned
  <2> DEFINE c    == file.is.signer_cert
             made == sigFile.is.signer_cert
  <2>1. /\ file.state \notin {"absent", "torn"}
        /\ ~(now > c.not_after) /\ ~(now < c.not_before)
        /\ ca[h].cert.state = "full" => c.serial \notin ca[h].crl.is
        /\ c.seal.by = g /\ c.seal.over = Body(c)
        /\ file.is.by = c.pub /\ file.is.over = docFile.is
    BY VerifySays
  <2>2. file.state = "full"
    BY <2>1, ThreeStates DEF Versions, VaultInv, Full, Absent, Torn
  <2>3. sigFile.is \in Signatures /\ c.seal = made.seal
        /\ file.is.by = sigFile.is.by /\ file.is.over = sigFile.is.over
    BY <2>2, VersionsKeep
  <2>4. made \in Certificates /\ <<sigFile.is.by, sigFile.is.over>> \in signed
    BY <2>3 DEF Signatures, SignMessage, VaultInv
  <2>5. <<g, Body(c)>> \in issued /\ Body(c) = Body(made)
    BY <2>1, <2>3, <2>4, Sealed
  <2>6. c.not_before \in Nat /\ c.not_after \in Nat /\ now \in Nat
    <3>1. made.not_before \in Nat /\ made.not_after \in Nat
      BY <2>4, Sealed
    <3>2. /\ Body(c).not_before = c.not_before /\ Body(c).not_after = c.not_after
          /\ Body(made).not_before = made.not_before /\ Body(made).not_after = made.not_after
      BY DEF Body
    <3> QED
      BY <2>5, <3>1, <3>2, BoundsAssumption DEF VaultInv
  <2> QED
    BY <2>1, <2>3, <2>4, <2>5, <2>6
<1> QED
  BY <1>1, VaultInductive, PTL

-----------------------------------------------------------------------------
(* No revival.                                                             *)

(* What "expired" and "revoked" say of any file. *)
LEMMA VerdictSays ==
    ASSUME NEW h, NEW g, NEW file
    PROVE  /\ Verify(h, g, file) = "expired" => now > file.is.signer_cert.not_after
           /\ Verify(h, g, file) = "revoked" =>
                 /\ ca[h].cert.state = "full" /\ ca[h].crl.state \notin {"absent", "torn"}
                 /\ file.is.signer_cert.serial \in ca[h].crl.is
<1> DEFINE c   == file.is.signer_cert
           crl == LocalCRL(h)
<1>1. VerifyCertificate(c, g, crl) = "expired" => now > c.not_after
  BY SomeVerdict DEF VerifyCertificate, When
<1>2. VerifyCertificate(c, g, crl) = "revoked" => crl.given /\ c.serial \in crl.serials
  BY SomeVerdict DEF VerifyCertificate, When
<1>3. \A v \in {"expired", "revoked"} :
         VerifyMessageSignature(docFile.is, file.is, g, crl) = v => VerifyCertificate(c, g, crl) = v
  BY SomeVerdict DEF VerifyMessageSignature, MapCertFailureReason, When
<1>4. \A v \in {"expired", "revoked"} :
         VerifyFileSignature(docFile, file.is, g, crl) = v
            => VerifyMessageSignature(docFile.is, file.is, g, crl) = v
  BY SomeVerdict DEF VerifyFileSignature, When
<1>5. \A v \in {"expired", "revoked"} :
         Verify(h, g, file) = v => VerifyFileSignature(docFile, file.is, g, crl) = v
  BY SomeVerdict DEF Verify, ReadErrors, When
<1>6. Verify(h, g, file) = "revoked" /\ ca[h].cert.state = "full"
         => ca[h].crl.state \notin {"absent", "torn"}
  BY OrElse DEF Verify, ReadErrors, When
<1>7. (crl.given <=> ca[h].cert.state = "full") /\ crl.serials = ca[h].crl.is
  BY Zenon DEF LocalCRL
<1> HIDE DEF c, crl
<1>8. Verify(h, g, file) = "expired" => now > c.not_after
  BY <1>1, <1>3, <1>4, <1>5
<1>9. Verify(h, g, file) = "revoked" => crl.given /\ c.serial \in crl.serials
  BY <1>2, <1>3, <1>4, <1>5
<1> QED
  BY <1>6, <1>7, <1>8, <1>9 DEF c

(* Time does not run back. *)
LEMMA TimeRuns == [Next]_vars => now' = now \/ now' = now + 1
<1>1. \A k \in Pairs : SignFile(k) \/ Decrypt(k) => now' = now
  BY Zenon DEF SignFile, Decrypt
<1>2. EncryptFile \/ Edit \/ UNCHANGED vars => now' = now
  BY DEF EncryptFile, Edit, vars
<1>3. Tick => now' = now + 1
  BY DEF Tick
<1>4. \A h \in Homes : InitCA(h) => now' = now
  BY Zenon DEF InitCA
<1>5. \A h \in Homes, k \in Pairs : IssueCert(h, k) => now' = now
  BY Zenon DEF IssueCert
<1>6. \A h \in Homes, s \in Revocable : RevokeCert(h, s) => now' = now
  BY Zenon DEF RevokeCert
<1> QED
  BY <1>1, <1>2, <1>3, <1>4, <1>5, <1>6 DEF Next

(* A CA that is there stays, and its list keeps what it holds or is torn,  *)
(* and then stays torn. *)
LEMMA NothingForgotten ==
    ASSUME VaultInv, [Next]_vars, NEW h \in Homes, ca[h].cert.state = "full"
    PROVE  /\ ca'[h].cert.state = "full"
           /\ ca'[h].crl.state = "torn" \/ ca[h].crl.is \subseteq ca'[h].crl.is
           /\ ca[h].crl.state = "torn" => ca'[h].crl.state = "torn"
<1> ca \in [Homes -> CAFiles]
  BY DEF VaultInv
<1>1. ASSUME NEW k \in Homes, InitCA(k) PROVE ca'[h] = ca[h]
  <2>1. k # h
    BY <1>1 DEF InitCA
  <2>2. \E files : ca' = [ca EXCEPT ![k] = files]
    BY <1>1, Zenon DEF InitCA
  <2> QED
    BY <1>1, <2>1, <2>2 DEF InitCA
<1>2. ASSUME NEW j \in Homes, NEW k \in Pairs, IssueCert(j, k)
      PROVE  ca'[h].cert = ca[h].cert /\ ca'[h].crl = ca[h].crl
  <2>1. \E f : ca' = [ca EXCEPT ![j].serial = f]
    BY <1>2, Zenon DEF IssueCert
  <2> QED
    BY <1>2, <2>1 DEF IssueCert, CAFiles
<1>3. ASSUME NEW j \in Homes, NEW s \in Revocable, RevokeCert(j, s)
      PROVE  /\ ca'[h].cert = ca[h].cert
             /\ ca'[h].crl.state = "torn" \/ ca[h].crl.is \subseteq ca'[h].crl.is
             /\ ca[h].crl.state = "torn" => ca'[h].crl.state = "torn"
  <2>1. PICK f \in Written(ca[j].crl.is \cup {s}, {}) : ca' = [ca EXCEPT ![j].crl = f]
    BY <1>3 DEF RevokeCert
  <2>2. f.state = "torn" \/ ca[j].crl.is \subseteq f.is
    BY <2>1 DEF Written, Full, Torn
  <2>3. CASE j = h
    BY <1>3, <2>1, <2>2, <2>3 DEF RevokeCert, CAFiles
  <2>4. CASE j # h
    BY <1>3, <2>1, <2>4 DEF RevokeCert, CAFiles
  <2> QED
    BY <2>3, <2>4
<1>4. CASE \/ \E k \in Pairs : SignFile(k) \/ Decrypt(k)
           \/ EncryptFile \/ Tick \/ Edit \/ UNCHANGED vars
  BY <1>4 DEF SignFile, Decrypt, EncryptFile, Tick, Edit, vars
<1> QED
  BY <1>1, <1>2, <1>3, <1>4 DEF Next

(* Why a signature file is refused for good in directory h: its period is  *)
(* over, or the CA of the directory has its number on the list, or has a   *)
(* list that does not parse.                                               *)
Lost(h) ==
    LET c == sigFile.is.signer_cert
    IN  \/ now > c.not_after
        \/ /\ ca[h].cert.state = "full"
           /\ ca[h].crl.state = "torn" \/ c.serial \in ca[h].crl.is

CondemnedInv == \A p \in condemned : Lost(p[1])

(* While the signature file stays, the reason stays. *)
LEMMA LostForGood ==
    ASSUME VaultInv, [Next]_vars, NEW h \in Homes, Lost(h), sigFile' = sigFile
    PROVE  Lost(h)'
<1> DEFINE c == sigFile.is.signer_cert
<1>1. CASE now > c.not_after
  <2>1. c.not_after \in Nat
    <3>1. c \in Certificates \cup {NoCert}
      BY FilesHold DEF Signatures, SignMessage, NoSig
    <3>2. NoCert.not_after \in Nat
      BY DEF NoCert, Certificate, NoBody
    <3> QED
      BY <3>1, <3>2, Sealed
  <2>2. now \in Nat /\ (now' = now \/ now' = now + 1)
    BY TimeRuns, BoundsAssumption DEF VaultInv
  <2> QED
    BY <1>1, <2>1, <2>2 DEF Lost
<1>2. CASE /\ ca[h].cert.state = "full"
           /\ ca[h].crl.state = "torn" \/ c.serial \in ca[h].crl.is
  BY <1>2, NothingForgotten DEF Lost
<1> QED
  BY <1>1, <1>2 DEF Lost

LEMMA CondemnedNext ==
    ASSUME VaultInv, Remembered, CondemnedInv, [Next]_vars
    PROVE  CondemnedInv'
<1>1. \A p \in condemned : p \in Homes \X Homes
  BY DEF Remembered
<1>2. ASSUME NEW p \in Refused PROVE p[1] \in Homes /\ Lost(p[1])
  <2>1. p[1] \in Homes /\ p[2] \in Homes /\ Verify(p[1], p[2], sigFile) \in {"expired", "revoked"}
    BY DEF Refused
  <2> QED
    BY <2>1, VerdictSays DEF Lost
<1>3. CASE sigFile' = sigFile /\ condemned' \subseteq condemned \cup Refused
  <2>1. \A p \in condemned' : p[1] \in Homes /\ Lost(p[1])
    BY <1>1, <1>2, <1>3 DEF CondemnedInv
  <2>2. \A h \in Homes : Lost(h) => Lost(h)'
    BY <1>3, LostForGood
  <2> QED
    BY <2>1, <2>2 DEF CondemnedInv
<1>4. CASE condemned' = {}
  BY <1>4 DEF CondemnedInv
<1> QED
  BY <1>3, <1>4, Condemns

(* A signature that was ever found expired or revoked since it was written *)
(* is not found valid, in the same directory and for the same CA, whatever *)
(* was edited, issued, signed, revoked or torn in between.                 *)
THEOREM VaultNoRevival == Spec => []NoRevival
<1>1. Init => CondemnedInv
  BY DEF Init, CondemnedInv
<1>2. VaultInv /\ CondemnedInv => NoRevival
  <2> SUFFICES ASSUME VaultInv, CondemnedInv, NEW p \in condemned,
                      Verify(p[1], p[2], sigFile) = "valid"
               PROVE  FALSE
    BY DEF NoRevival
  <2>1. Lost(p[1])
    BY DEF CondemnedInv
  <2>2. LET c == sigFile.is.signer_cert
        IN  /\ ~(now > c.not_after)
            /\ ca[p[1]].cert.state = "full" =>
                  ca[p[1]].crl.state # "torn" /\ c.serial \notin ca[p[1]].crl.is
    BY VerifySays
  <2> QED
    BY <2>1, <2>2 DEF Lost
<1> QED
  BY <1>1, <1>2, CondemnedNext, VaultInductive, VaultRemembers, PTL DEF Spec

-----------------------------------------------------------------------------
(* The validators and the commands.                                        *)

(* A certificate that validate_certificate lets pass is read to a verdict. *)
LEMMA CertificateReads ==
    ASSUME NEW c, NEW g, NEW crl, ValidateCertificate(c) = "valid"
    PROVE  VerifyCertificate(c, g, crl) \notin Tracebacks
<1>1. /\ IsNumber(c, "serial") /\ IsBase64(c, "signature")
      /\ IsNumber(c, "not_before") /\ IsNumber(c, "not_after")
  BY AllPass DEF ValidateCertificate, When
<1>2. /\ Kind(c, "not_after") \notin {"missing", "odd"}
      /\ Kind(c, "not_before") \notin {"missing", "odd"}
      /\ Kind(c, "serial") \notin {"missing", "odd"}
      /\ Kind(c, "signature") # "missing"
  BY <1>1 DEF IsNumber, IsBase64
<1>3. VerifyCertificate(c, g, crl)
         \in {"expired", "not_yet_valid", "revoked", "bad_signature", "valid"}
  BY <1>2, SomeVerdict DEF VerifyCertificate, When
<1> QED
  BY <1>3 DEF Tracebacks

(* So is a signature whose payload and certificate pass. *)
LEMMA SignatureReads ==
    ASSUME NEW h, NEW g, NEW file, file.state = "full",
           ValidateSignaturePayload(file.is) = "valid",
           ValidateCertificate(file.is.signer_cert) = "valid"
    PROVE  Verify(h, g, file) \notin Tracebacks
<1> DEFINE sig == file.is
           crl == LocalCRL(h)
<1>1. VerifyCertificate(sig.signer_cert, g, crl) \notin Tracebacks
  BY CertificateReads
<1>2. /\ IsBase64(sig, "signature") /\ Kind(sig, "signer_cert") = "good"
  BY AllPass DEF ValidateSignaturePayload, When
<1>3. Kind(sig, "signature") # "missing"
  BY <1>2 DEF IsBase64
<1> HIDE DEF crl
<1>4. VerifyMessageSignature(docFile.is, sig, g, crl) \notin Tracebacks
  BY <1>1, <1>3, SomeVerdict DEF VerifyMessageSignature, MapCertFailureReason, When, Tracebacks
<1>5. VerifyFileSignature(docFile, sig, g, crl) \notin Tracebacks
  BY <1>2, <1>4, SomeVerdict DEF VerifyFileSignature, When, Tracebacks
<1> QED
  BY <1>2, <1>5, SomeVerdict DEF Verify, ReadErrors, When, Tracebacks, crl

(* A validated certificate is encrypted to or refused, unless it says that *)
(* a key is ECC which is not. *)
LEMMA RecipientReads ==
    ASSUME NEW c, ValidateCertificate(c) = "valid"
    PROVE  EncryptMessage(c) \in Tracebacks <=> c.key_type = "ecc" /\ c.pub \notin ECCPairs
<1>1. Kind(c, "public_key") = "good" /\ Kind(c, "key_type") = "good"
  BY AllPass DEF ValidateCertificate, When
<1>2. CASE c.key_type # "ecc"
  BY <1>1, <1>2, OrElse DEF EncryptMessage, When, Tracebacks
<1>3. CASE c.key_type = "ecc"
  <2>1. EncryptMessage(c) = EcdhDeriveSharedSecret("ecc", PublicKey(c))
    BY <1>1, <1>3, OrElse DEF EncryptMessage, When
  <2>2. CASE c.pub \in ECCPairs
    <3>1. PublicKey(c) = "good"
      BY <1>1, <2>2 DEF PublicKey
    <3>2. EcdhDeriveSharedSecret("ecc", "good") = "valid"
      BY OrElse DEF EcdhDeriveSharedSecret, When
    <3> QED
      BY <2>1, <2>2, <3>1, <3>2 DEF Tracebacks
  <2>3. CASE c.pub \notin ECCPairs
    <3>1. PublicKey(c) = "alien"
      BY <1>1, <2>3 DEF PublicKey
    <3>2. EcdhDeriveSharedSecret("ecc", "alien") = "TypeError"
      BY OrElse DEF EcdhDeriveSharedSecret, When
    <3> QED
      BY <1>3, <2>1, <2>3, <3>1, <3>2 DEF Tracebacks
  <2> QED
    BY <2>2, <2>3
<1> QED
  BY <1>2, <1>3

(* A validated storage file opens or is taken for a wrong password. *)
LEMMA StorageReads ==
    ASSUME NEW storage, ValidateKeyStorage(storage) = "valid"
    PROVE  LoadPrivateKey(Full(storage)) \notin Tracebacks
<1> DEFINE hit == DamageAmong(storage, StoredBytes \cup {"iterations"})
<1>1. /\ Kind(storage, "iterations") = "good"
      /\ \A f \in {"salt_b64", "iv_b64", "tag_b64"} : IsSized(storage, f)
      /\ IsBase64(storage, "encrypted_key_b64")
  BY AllPass DEF ValidateKeyStorage, When
<1>2. hit \notin {"missing", "odd"}
  BY <1>1 DEF DamageAmong, Kind, IsSized, IsBase64, StoredBytes
<1>3. Full(storage).is = storage /\ Full(storage).state = "full"
  BY DEF Full
<1> HIDE DEF hit
<1>4. LoadPrivateKey(Full(storage)) \in {"FileNotFoundError", "ValueError", "valid"}
  BY <1>2, <1>3, SomeVerdict DEF LoadPrivateKey, ReadErrors, When, hit
<1> QED
  BY <1>4 DEF Tracebacks

(* A validated message decrypts, or what is wrong with it is said; the     *)
(* exceptions main lets through are the one of the cipher and the one of a *)
(* PEM of an alien key. *)
LEMMA EncryptionReads ==
    ASSUME NEW k \in ECCPairs, NEW file, file.state = "full",
           ValidateEncryptedMessage(file.is) = "valid"
    PROVE  DecryptFile(k, InKeystore, file) \in Tracebacks \ {"InvalidTag"}
              <=> Kind(file.is, "ephemeral_pub_b64") = "alien"
<1> DEFINE msg == file.is
           pub == Kind(msg, "ephemeral_pub_b64")
           hit == DamageAmong(msg, {"iv_b64", "tag_b64", "ciphertext_b64"})
<1>1. /\ pub \in {"good", "alien"}
      /\ \A f \in {"iv_b64", "tag_b64", "nonce_b64"} : IsSized(msg, f)
      /\ IsBase64(msg, "ciphertext_b64")
  BY AllPass DEF ValidateEncryptedMessage, When
<1>2. hit \notin {"missing", "odd", "garbled"}
  BY <1>1 DEF DamageAmong, Kind, IsSized, IsBase64
<1>3. AesDecrypt(Kind(msg, "iv_b64"), hit = "good" /\ k = msg.to) \in {"ValueError", "InvalidTag", "valid"}
  BY SomeVerdict DEF AesDecrypt, When
<1>4. LoadPrivateKey(InKeystore) = "valid"
  <2>1. /\ InKeystore.state = "full"
        /\ DamageAmong(InKeystore.is, StoredBytes \cup {"iterations"}) = "good"
        /\ Kind(InKeystore.is, "iv_b64") = "good"
    BY DEF InKeystore, Full, DamageAmong, Kind, NoDamage
  <2> QED
    BY <2>1, OrElse DEF LoadPrivateKey, ReadErrors, AesDecrypt, When
<1>5. DecryptFile(k, InKeystore, file) = DecryptMessage(msg, k)
  BY <1>4, OrElse DEF DecryptFile, ReadErrors, When
<1>6. CASE pub = "good"
  <2>1. EcdhDeriveSharedSecret("ecc", pub) = "valid"
    BY <1>6, OrElse DEF EcdhDeriveSharedSecret, When
  <2> HIDE DEF hit, pub
  <2>2. DecryptMessage(msg, k) \in {"ValueError", "InvalidTag", "valid"}
    BY <1>2, <1>3, <2>1, SomeVerdict DEF DecryptMessage, KeyType, When, hit, pub
  <2> QED
    BY <1>5, <1>6, <2>2 DEF Tracebacks, pub
<1>7. CASE pub = "alien"
  <2>1. EcdhDeriveSharedSecret("ecc", pub) = "TypeError"
    BY <1>7, OrElse DEF EcdhDeriveSharedSecret, When
  <2> HIDE DEF hit, pub
  <2>2. DecryptMessage(msg, k) = "TypeError"
    BY <2>1, OrElse DEF DecryptMessage, KeyType, pub
  <2> QED
    BY <1>5, <1>7, <2>2 DEF Tracebacks, pub
<1> QED
  BY <1>1, <1>6, <1>7

(* What the commands write passes the validators (but for the encryption   *)
(* of nothing), and what passes them the commands read to an end, but for  *)
(* a key of another type than its document says. *)
THEOREM VaultSchemasAgree == Spec => []SchemasAgree
<1>1. VaultInv => SchemasAgree
  <2> SUFFICES ASSUME VaultInv PROVE SchemasAgree
    OBVIOUS
  <2>1. ASSUME NEW d, d.bad = NoDamage, NEW f PROVE Kind(d, f) = "good"
    BY <2>1 DEF Kind, NoDamage
  <2>2. ASSUME NEW c \in Certificates PROVE ValidateCertificate(c) = "valid"
    <3>1. ~(c.serial <= 0) /\ ~(c.not_before >= c.not_after)
      <4>1. /\ c.serial \in FirstSerial .. MaxSerial
            /\ c.not_before \in Nat /\ c.not_after \in Nat /\ c.not_before < c.not_after
        BY Sealed
      <4> QED
        BY <4>1, SerialAssumption, BoundsAssumption
    <3>2. \A f : Kind(c, f) = "good"
      BY <2>1, Sealed
    <3>3. \A f : IsNumber(c, f) /\ IsBase64(c, f)
      BY <3>2 DEF IsNumber, IsBase64
    <3> QED
      BY <3>1, <3>2, <3>3, AllPass DEF ValidateCertificate, When
  <2>3. certFile.state = "full" => ValidateCertificate(certFile.is) = "valid"
    BY <2>2, FullIs DEF VaultInv
  <2>4. sigFile.state = "full" => ValidateSignaturePayload(sigFile.is) = "valid"
    <3> SUFFICES ASSUME sigFile.state = "full"
                 PROVE  ValidateSignaturePayload(sigFile.is) = "valid"
      OBVIOUS
    <3>1. sigFile.is \in Signatures
      BY FullIs DEF VaultInv
    <3>2. sigFile.is.bad = NoDamage /\ sigFile.is.signer_cert \in Certificates
      BY <3>1 DEF Signatures, SignMessage
    <3>3. \A f : Kind(sigFile.is, f) = "good" /\ Kind(sigFile.is.signer_cert, f) = "good"
      BY <2>1, <3>2, Sealed
    <3>4. \A f : IsBase64(sigFile.is, f)
      BY <3>3 DEF IsBase64
    <3> QED
      BY <3>3, <3>4, AllPass DEF ValidateSignaturePayload, When
  <2>5. encFile.state = "full" /\ encFile.is.plaintext # "empty"
           => ValidateEncryptedMessage(encFile.is) = "valid"
    <3> SUFFICES ASSUME encFile.state = "full", encFile.is.plaintext # "empty"
                 PROVE  ValidateEncryptedMessage(encFile.is) = "valid"
      OBVIOUS
    <3>1. encFile.is.bad = NoDamage
      BY FullIs DEF VaultInv, Encryptions
    <3>2. \A f : Kind(encFile.is, f) = "good"
      BY <2>1, <3>1
    <3>3. \A f : IsSized(encFile.is, f) /\ IsBase64(encFile.is, f) /\ IsNumber(encFile.is, f)
      BY <3>2 DEF IsSized, IsBase64, IsNumber
    <3> QED
      BY <3>2, <3>3, AllPass DEF ValidateEncryptedMessage, When
  <2> QED
    BY <2>3, <2>4, <2>5, SignatureReads, RecipientReads, EncryptionReads, StorageReads
       DEF SchemasAgree
<1> QED
  BY <1>1, VaultInductive, PTL
=============================================================================
