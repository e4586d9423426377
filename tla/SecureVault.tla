---------------------------- MODULE SecureVault ----------------------------
(***************************************************************************)
(* The commands of the SecureVault toolkit over the files they share       *)
(* (securevault_cli.py with signature_engine.py, encryption_engine.py,     *)
(* pki_utils.py, crypto_utils.py).  Commands run one at a time; what       *)
(* several do to each other is the subject of CertificateAuthority and     *)
(* KeyManager.  A command that only reads is an operator: what it prints,  *)
(* or the exception it ends with.  A command that writes is an action, and *)
(* may be interrupted in its write, which leaves the file torn.            *)
(*                                                                         *)
(* There are several working directories (homes), each with a CA of its    *)
(* own, and one document with its certificate, signature and encryption.   *)
(* A CA key pair is named by its home.  A signature is symbolic: the key   *)
(* that made it and what it was made over.  Between commands the document  *)
(* is edited and time passes.  The files a command reads may differ from   *)
(* the ones written in a field: the properties speak of all versions.      *)
(***************************************************************************)
EXTENDS SchemaValidation

CONSTANTS
    Homes,          \* working directories
    RSAPairs,       \* key pairs in the keystore
    ECCPairs,
    Contents,       \* what the document may hold, "empty" among it
    Nobody,         \* default value: no pair and no home
    Validity,       \* lifetime of a certificate
    FirstSerial,    \* 1000
    Interrupts,     \* TRUE when a write may be interrupted
    MaxSerial,      \* bound: the last serial number given out
    Revocable,      \* bound: the numbers revoke-cert is called with
    MaxNow          \* bound: clock

ASSUME ContentsAssumption == "empty" \in Contents
ASSUME SerialAssumption   == FirstSerial \in Nat \ {0} /\ Validity \in Nat \ {0}
ASSUME BoundsAssumption   == /\ MaxSerial \in Nat /\ FirstSerial <= MaxSerial + 1
                             /\ Revocable \subseteq Nat /\ MaxNow \in Nat
ASSUME InterruptsAssumption == Interrupts \in BOOLEAN

VARIABLES
    now,
    ca,         \* per home: ca_cert.json, crl.json, serial.json
    docFile,    \* the document
    certFile,   \* {subject}.cert.json
    sigFile,    \* {file}.sig
    encFile,    \* {file}.enc
    issued,     \* history: the certificates each CA signed
    signed,     \* history: the contents each pair signed
    condemned   \* history: the <<directory, CA>> pairs under which the present
                \* signature file was once expired or revoked

vars == <<now, ca, docFile, certFile, sigFile, encFile, issued, signed, condemned>>

Pairs      == RSAPairs \cup ECCPairs

-----------------------------------------------------------------------------
(* Files.  A file that is not full holds the default value d.              *)
Absent(d) == [state |-> "absent", is |-> d]
Torn(d)   == [state |-> "torn", is |-> d]
Full(v)   == [state |-> "full", is |-> v]

(* _detect_key_type: the word for the key of pair k. *)
KeyType(k) == IF k \in ECCPairs THEN "ecc" ELSE "rsa"

NoBody == [serial |-> 0, pub |-> Nobody, key_type |-> "rsa", not_before |-> 0, not_after |-> 0]
NoSeal == [by |-> Nobody, over |-> NoBody]
Certificate(body, seal, bad) ==
    [serial |-> body.serial, pub |-> body.pub, key_type |-> body.key_type,
     not_before |-> body.not_before, not_after |-> body.not_after,
     seal |-> seal, bad |-> bad]
Body(c) == [serial |-> c.serial, pub |-> c.pub, key_type |-> c.key_type,
            not_before |-> c.not_before, not_after |-> c.not_after]
NoCert   == Certificate(NoBody, NoSeal, NoDamage)
NoSig    == [signer_cert |-> NoCert, by |-> Nobody, over |-> "empty", bad |-> NoDamage]
NoMsg    == [to |-> Nobody, plaintext |-> "empty", bad |-> NoDamage]
InKeystore == Full([bad |-> NoDamage])
NoCA     == [cert |-> Absent(0), crl |-> Absent({}), serial |-> Absent(0)]

Init ==
    /\ now = 0
    /\ ca = [h \in Homes |-> NoCA]
    /\ docFile \in {Full(v) : v \in Contents} \cup {Absent("empty")}
    /\ certFile = Absent(NoCert)
    /\ sigFile = Absent(NoSig)
    /\ encFile = Absent(NoMsg)
    /\ issued = {} /\ signed = {} /\ condemned = {}

(* Bound: at a time at most one file is torn, or one CA half initialized. *)
MayTear ==
    /\ Interrupts
    /\ \A f \in {certFile.state, sigFile.state, encFile.state} : f # "torn"
    /\ \A h \in Homes : ca[h] # NoCA => ca[h].crl.state = "full" /\ ca[h].serial.state = "full"

(* What a write of v leaves behind. *)
Written(v, d) == {Full(v)} \cup (IF MayTear THEN {Torn(d)} ELSE {})

-----------------------------------------------------------------------------
(* Reading.                                                                *)

(* What opening the file f and json.loads raise. *)
ReadErrors(f) ==
       When(f.state = "absent", "FileNotFoundError")
    ?? When(f.state = "torn",   "ValueError")

(* What became of those of the fields F of document d that are looked at.  *)
DamageAmong(d, F) == IF d.bad.field \in F THEN d.bad.kind ELSE "good"

(* aes_decrypt: an iv of no bytes is refused, and nothing but what was     *)
(* encrypted with this key authenticates.                                  *)
AesDecrypt(iv, intact) ==
       When(iv = "empty", "ValueError")
    ?? When(~intact,      "InvalidTag")

(* load_private_key with the right password.  A key derived from the wrong *)
(* salt or iterations, and a wrong size, look like a wrong password.       *)
LoadPrivateKey(keyFile) ==
    LET hit == DamageAmong(keyFile.is, StoredBytes \cup {"iterations"})
    IN     ReadErrors(keyFile)
        ?? When(hit = "missing",     "KeyError")
        ?? When(hit = "odd",         "TypeError")
        ?? When(hit = "garbled",     "ValueError")
        ?? When(AesDecrypt(Kind(keyFile.is, "iv_b64"), hit = "good") # "valid", "ValueError")

(* rsa_verify: never raises. *)
RsaVerify(text, seal, key, over) ==
    /\ text = "good"
    /\ seal.by = key /\ seal.over = over

(* Mutant of VerifyCertificate: the CA's signature is not checked. *)
VerifyCertificateUnsigned(c, g, crl) ==
       When(Kind(c, "not_after") = "missing",               "KeyError")
    ?? When(Kind(c, "not_after") = "odd",                   "TypeError")
    ?? When(now > c.not_after,                              "expired")
    ?? When(Kind(c, "not_before") = "missing",              "KeyError")
    ?? When(Kind(c, "not_before") = "odd",                  "TypeError")
    ?? When(now < c.not_before,                             "not_yet_valid")
    ?? When(crl.given /\ c.serial \in crl.serials,          "revoked")

(* verify_certificate under the key of CA g. *)
VerifyCertificate(c, g, crl) ==
       When(Kind(c, "not_after") = "missing",               "KeyError")
    ?? When(Kind(c, "not_after") = "odd",                   "TypeError")
    ?? When(now > c.not_after,                              "expired")
    ?? When(Kind(c, "not_before") = "missing",              "KeyError")
    ?? When(Kind(c, "not_before") = "odd",                  "TypeError")
    ?? When(now < c.not_before,                             "not_yet_valid")
    ?? When(crl.given /\ Kind(c, "serial") = "missing",     "KeyError")
    ?? When(crl.given /\ Kind(c, "serial") = "odd",         "TypeError")
    ?? When(crl.given /\ c.serial \in crl.serials,          "revoked")
    ?? When(Kind(c, "signature") = "missing",               "KeyError")
    ?? When(~RsaVerify(c.bad.kind, c.seal, g, Body(c)),     "bad_signature")

(* _map_cert_failure_reason. *)
MapCertFailureReason(reason) ==
    IF reason = "bad_signature" THEN "untrusted_issuer" ELSE reason

(* verify_message_signature. *)
VerifyMessageSignature(content, sig, g, crl) ==
       MapCertFailureReason(VerifyCertificate(sig.signer_cert, g, crl))
    ?? When(Kind(sig, "signature") = "missing",             "KeyError")
    ?? When(~RsaVerify(Kind(sig, "signature"), sig, sig.signer_cert.pub, content),
                                                            "bad_signature")

(* verify_file_signature: the same of a file. *)
VerifyFileSignature(file, sig, g, crl) ==
       When(file.state = "absent",                          "FileNotFoundError")
    ?? When(Kind(sig, "signer_cert") = "odd",               "TypeError")
    ?? VerifyMessageSignature(file.is, sig, g, crl)

-----------------------------------------------------------------------------
(* The commands that read.                                                 *)

(* get_crl, when there is a CA in the directory; no list otherwise. *)
LocalCRL(h) == [given |-> ca[h].cert.state = "full", serials |-> ca[h].crl.is]

(* Mutant of Verify: a list that does not parse is an empty one. *)
VerifyTornAsEmpty(h, g, file) ==
       When(file.state = "absent",                          "FileNotFoundError")
    ?? ReadErrors(ca[g].cert)
    ?? When(file.state = "torn",                            "ValueError")
    ?? When(Kind(file.is, "signer_cert") = "missing",       "KeyError")
    ?? When(ca[h].cert.state = "torn",                      "ValueError")
    ?? When(ca[h].cert.state = "full" /\ ca[h].crl.state = "absent", "RuntimeError")
    ?? VerifyFileSignature(docFile, file.is, g, LocalCRL(h))

(* verify of a signature file in directory h against the certificate of CA *)
(* g: what it prints, or the exception.  The list is the one of the CA of  *)
(* the directory.                                                          *)
Verify(h, g, file) ==
       When(file.state = "absent",                          "FileNotFoundError")
    ?? ReadErrors(ca[g].cert)
    ?? When(file.state = "torn",                            "ValueError")
    ?? When(Kind(file.is, "signer_cert") = "missing",       "KeyError")
    ?? When(ca[h].cert.state = "torn",                      "ValueError")
    ?? When(ca[h].cert.state = "full" /\ ca[h].crl.state = "absent", "RuntimeError")
    ?? When(ca[h].cert.state = "full" /\ ca[h].crl.state = "torn", "ValueError")
    ?? VerifyFileSignature(docFile, file.is, g, LocalCRL(h))

(* ecdh_derive_shared_secret by a private key of the type given, with a    *)
(* public key that is the PEM of an ECC key ("good"), of another ("alien") *)
(* or worse: load_pem_*, then exchange, which an RSA key does not have and *)
(* which takes no other than an ECC key.                                   *)
EcdhDeriveSharedSecret(private, pub) ==
       When(pub = "odd",                                    "TypeError")
    ?? When(pub \notin {"good", "alien"},                   "ValueError")
    ?? When(private # "ecc",                                "AttributeError")
    ?? When(pub = "alien",                                  "TypeError")

(* decrypt_message by pair k; it turns a KeyError into a ValueError. *)
DecryptMessage(msg, k) ==
    LET pub == Kind(msg, "ephemeral_pub_b64")
        hit == DamageAmong(msg, {"iv_b64", "tag_b64", "ciphertext_b64"})
    IN     EcdhDeriveSharedSecret(KeyType(k), pub)
        ?? When(hit \in {"missing", "garbled"},             "ValueError")
        ?? When(hit = "odd",                                "TypeError")
        ?? AesDecrypt(Kind(msg, "iv_b64"), hit = "good" /\ k = msg.to)

(* What decrypt ends with, of a file and by pair k in keyFile: decrypt_file.*)
DecryptFile(k, keyFile, file) ==
       LoadPrivateKey(keyFile)
    ?? ReadErrors(file)
    ?? DecryptMessage(file.is, k)

(* Mutant of SignOutcome: any key signs. *)
SignOutcomeAnyKey(k, keyFile) ==
       LoadPrivateKey(keyFile)
    ?? ReadErrors(certFile)
    ?? When(docFile.state = "absent",                       "FileNotFoundError")

(* What sign ends with. *)
SignOutcome(k, keyFile) ==
       LoadPrivateKey(keyFile)
    ?? ReadErrors(certFile)
    ?? When(docFile.state = "absent",                       "FileNotFoundError")
    ?? When(k \notin RSAPairs,                              "TypeError")

(* The public key that is in a certificate, to the eyes of exchange. *)
PublicKey(c) ==
    IF Kind(c, "public_key") = "good" /\ c.pub \notin ECCPairs
    THEN "alien" ELSE Kind(c, "public_key")

(* What encrypt_message ends with: of the recipient's certificate it looks *)
(* at the word in key_type, then takes the key for what the word says.     *)
EncryptMessage(c) ==
       When(Kind(c, "key_type") # "good" \/ c.key_type # "ecc", "ValueError")
    ?? When(Kind(c, "public_key") = "missing",              "KeyError")
    ?? When(Kind(c, "public_key") = "odd",                  "AttributeError")
    ?? EcdhDeriveSharedSecret("ecc", PublicKey(c))

(* What encrypt ends with; encrypt_file. *)
EncryptOutcome ==
       ReadErrors(certFile)
    ?? When(docFile.state = "absent",                       "FileNotFoundError")
    ?? EncryptMessage(certFile.is)

(* What main does not turn into a message; it ends with a traceback. *)
Tracebacks == {"KeyError", "TypeError", "AttributeError", "InvalidTag"}

-----------------------------------------------------------------------------
(* The commands that write.                                                *)

(* The directories and CAs that refuse the signature file for good. *)
Refused == {p \in Homes \X Homes : Verify(p[1], p[2], sigFile) \in {"expired", "revoked"}}
Watch   == condemned' = condemned \cup Refused

(* init-ca; interrupted, it leaves the files it came to. *)
InitCA(h) ==
    /\ ca[h].cert.state = "absent"
    /\ ca' \in {[ca EXCEPT ![h] = files] :
                   files \in {[cert |-> Full(0), crl |-> Full({}), serial |-> Full(FirstSerial)]}
                       \cup (IF MayTear
                             THEN {[NoCA EXCEPT !.cert = Torn(0)],
                                   [NoCA EXCEPT !.cert = Full(0)],
                                   [NoCA EXCEPT !.cert = Full(0), !.crl = Torn({})],
                                   [NoCA EXCEPT !.cert = Full(0), !.crl = Full({})],
                                   [NoCA EXCEPT !.cert = Full(0), !.crl = Full({}),
                                                !.serial = Torn(0)]}
                             ELSE {})}
    /\ Watch
    /\ UNCHANGED <<now, docFile, certFile, sigFile, encFile, issued, signed>>

(* create_cert for the public key of pair k. *)
CreateCert(k, serial) ==
    [serial |-> serial, pub |-> k, key_type |-> KeyType(k),
     not_before |-> now, not_after |-> now + Validity]

(* sign_certificate by CA h. *)
SignCertificate(body, h) == Certificate(body, [by |-> h, over |-> body], NoDamage)

(* issue-cert.  The serial number is spent before create_cert refuses the  *)
(* subject or the validity, and before the certificate is written, over    *)
(* whatever certificate the subject had.                                   *)
IssueCert(h, k) ==
    LET body == CreateCert(k, ca[h].serial.is)
    IN  /\ ca[h].cert.state = "full" /\ ca[h].serial.state = "full"
        /\ ca[h].serial.is <= MaxSerial
        /\ \/ /\ ca' = [ca EXCEPT ![h].serial = Full(ca[h].serial.is + 1)]
              /\ \/ /\ issued' = issued \cup {<<h, body>>}
                    /\ certFile' \in Written(SignCertificate(body, h), NoCert)
                 \/ UNCHANGED <<issued, certFile>>
           \/ /\ MayTear
              /\ ca' = [ca EXCEPT ![h].serial = Torn(0)]
              /\ UNCHANGED <<issued, certFile>>
        /\ Watch
        /\ UNCHANGED <<now, docFile, sigFile, encFile, signed>>

(* revoke-cert of any number. *)
RevokeCert(h, s) ==
    /\ ca[h].cert.state = "full" /\ ca[h].crl.state = "full"
    /\ \E f \in Written(ca[h].crl.is \cup {s}, {}) : ca' = [ca EXCEPT ![h].crl = f]
    /\ Watch
    /\ UNCHANGED <<now, docFile, certFile, sigFile, encFile, issued, signed>>

(* sign_message, and sign_file of the document. *)
SignMessage(content, k, signer_cert) ==
    [signer_cert |-> signer_cert, by |-> k, over |-> content, bad |-> NoDamage]

(* sign with the key k: nothing says that the certificate is for this key. *)
SignFile(k) ==
    /\ SignOutcome(k, InKeystore) = "valid"
    /\ sigFile' \in Written(SignMessage(docFile.is, k, certFile.is), NoSig)
    /\ signed' = signed \cup {<<k, docFile.is>>}
    /\ condemned' = {}
    /\ UNCHANGED <<now, ca, docFile, certFile, encFile, issued>>

(* encrypt, to the default output. *)
EncryptFile ==
    /\ EncryptOutcome = "valid"
    /\ encFile' \in Written([to |-> certFile.is.pub, plaintext |-> docFile.is,
                              bad |-> NoDamage], NoMsg)
    /\ Watch
    /\ UNCHANGED <<now, ca, docFile, certFile, sigFile, issued, signed>>

(* decrypt, to the default output: over the document, which is cut short   *)
(* when it is interrupted.                                                 *)
Decrypt(k) ==
    /\ DecryptFile(k, InKeystore, encFile) = "valid"
    /\ docFile' \in {Full(encFile.is.plaintext)}
                        \cup (IF Interrupts THEN {Full("empty")} ELSE {})
    /\ Watch
    /\ UNCHANGED <<now, ca, certFile, sigFile, encFile, issued, signed>>

-----------------------------------------------------------------------------
(* The world around the commands.                                          *)

Tick ==
    /\ now < MaxNow
    /\ now' = now + 1
    /\ Watch
    /\ UNCHANGED <<ca, docFile, certFile, sigFile, encFile, issued, signed>>

(* The document is written or changed by hand.  Bound: once it is there,   *)
(* it is not removed.                                                      *)
Edit ==
    /\ docFile' \in {Full(v) : v \in Contents}
    /\ Watch
    /\ UNCHANGED <<now, ca, certFile, sigFile, encFile, issued, signed>>

Next ==
    \/ \E h \in Homes : \/ InitCA(h)
                        \/ \E k \in Pairs : IssueCert(h, k)
                        \/ \E s \in Revocable : RevokeCert(h, s)
    \/ \E k \in Pairs : SignFile(k) \/ Decrypt(k)
    \/ EncryptFile
    \/ Tick \/ Edit

Spec == Init /\ [][Next]_vars

-----------------------------------------------------------------------------
(* Properties.                                                             *)

IsFile(f, V) == f \in {[state |-> t, is |-> v] : t \in {"absent", "torn", "full"}, v \in V}

TypeOK ==
    /\ now \in 0 .. MaxNow
    /\ \A h \in Homes : /\ IsFile(ca[h].cert, {0})
                        /\ IsFile(ca[h].crl, SUBSET Revocable)
                        /\ IsFile(ca[h].serial, 0 .. MaxSerial + 1)
    /\ docFile.is \in Contents
    /\ \A c \in {certFile.is, sigFile.is.signer_cert} :
          /\ c.serial \in 0 .. MaxSerial
          /\ c.pub \in Pairs \cup {Nobody}
          /\ c.seal.by \in Homes \cup {Nobody}
          /\ c.bad.kind = "good" <=> c.bad = NoDamage
    /\ encFile.is.to \in ECCPairs \cup {Nobody}
    /\ sigFile.is.by \in RSAPairs \cup {Nobody}
    /\ condemned \subseteq Homes \X Homes

(* The versions of a document that differ from it in one field: another     *)
(* value of the field's type, or one lost or changed beyond its type.      *)
Marked(d, marks) == {d} \cup {[d EXCEPT !.bad = mark] : mark \in marks}

CertMarks == DamageOf(CertFields, {"signature"})
CertVersions(c) ==
    Marked(c, CertMarks)
        \cup {[c EXCEPT !.serial = s] : s \in Revocable}
        \cup {[c EXCEPT !.pub = k] : k \in Pairs}
        \cup {[c EXCEPT !.key_type = word] : word \in {"rsa", "ecc"}}
        \cup {[c EXCEPT !.not_before = t] : t \in 0 .. MaxNow}
        \cup {[c EXCEPT !.not_after = t] : t \in 0 .. MaxNow}

SigVersions(s) ==
    Marked(s, DamageOf(PayloadFields, {"signature"}))
        \cup {[s EXCEPT !.signer_cert = c] : c \in CertVersions(s.signer_cert)}

MessageVersions(m) == Marked(m, DamageOf(MessageFields, Encoded))
StorageVersions    == Marked(InKeystore.is, DamageOf(StorageFields, StoredBytes))

Versions(file, of(_)) == IF file.state = "full" THEN {Full(v) : v \in of(file.is)} ELSE {file}

(* A verdict "valid" of verify on any version of the signature file says:  *)
(* the CA given signed the very certificate it holds, the owner of its key *)
(* signed what the document holds now, the period has not ended, and the   *)
(* CA of the directory, if there is one, has not revoked the number.       *)
ValidIsSigned ==
    \A h, g \in Homes, file \in Versions(sigFile, SigVersions) :
        LET c == file.is.signer_cert
        IN  Verify(h, g, file) = "valid" =>
                /\ <<g, Body(c)>> \in issued
                /\ <<c.pub, docFile.is>> \in signed
                /\ c.not_before <= now /\ now <= c.not_after
                /\ ca[h].cert.state = "full" => c.serial \notin ca[h].crl.is

(* A signature file that was expired or revoked at some time since it was  *)
(* written is not valid now, in the same directory and for the same CA:    *)
(* whatever became of the document and of the CA's files since, a list     *)
(* that stopped to parse included (pki_utils.py, verify_certificate).      *)
NoRevival ==
    \A p \in condemned : Verify(p[1], p[2], sigFile) # "valid"

(* The validators and the commands agree: what commands write passes them, *)
(* and any version that passes them is read without a KeyError, a TypeError *)
(* or an AttributeError.  There are four exceptions, the only ones: an     *)
(* encrypted empty document is written and refused; a signature needs a    *)
(* validated signer_cert, too (validate_signature_payload asks for its     *)
(* fields only); a certificate may say "ecc" of a key that is not, and a   *)
(* message carry a PEM of such a key: both pass and end in a traceback.    *)
SchemasAgree ==
    /\ certFile.state = "full" => ValidateCertificate(certFile.is) = "valid"
    /\ sigFile.state = "full" => ValidateSignaturePayload(sigFile.is) = "valid"
    /\ encFile.state = "full" /\ encFile.is.plaintext # "empty"
          => ValidateEncryptedMessage(encFile.is) = "valid"
    /\ \A file \in Versions(sigFile, SigVersions) :
          /\ file.state = "full"
          /\ ValidateSignaturePayload(file.is) = "valid"
          /\ ValidateCertificate(file.is.signer_cert) = "valid"
          => \A h, g \in Homes : Verify(h, g, file) \notin Tracebacks
    /\ \A c \in CertVersions(certFile.is) :
          ValidateCertificate(c) = "valid"
          => (EncryptMessage(c) \in Tracebacks <=> c.key_type = "ecc" /\ c.pub \notin ECCPairs)
    /\ \A k \in ECCPairs, file \in Versions(encFile, MessageVersions) :
          file.state = "full" /\ ValidateEncryptedMessage(file.is) = "valid"
          => (DecryptFile(k, InKeystore, file) \in Tracebacks \ {"InvalidTag"}
                 <=> Kind(file.is, "ephemeral_pub_b64") = "alien")
    /\ \A storage \in StorageVersions :
          ValidateKeyStorage(storage) = "valid"
          => LoadPrivateKey(Full(storage)) \notin Tracebacks
=============================================================================
