-------------------------- MODULE SchemaValidation -------------------------
(***************************************************************************)
(* The schema validators of the SecureVault toolkit                        *)
(* (securevault/schema_validation.py) as operators over its documents.     *)
(*                                                                         *)
(* A document is a record of the values its readers tell apart, and a      *)
(* mark: `bad' names at most one of its JSON fields and what became of it. *)
(*    missing  the field is not there                                      *)
(*    odd      it holds a list (signer_cert: a number)                     *)
(*    garbled  its type is right, but it is not base64, PEM or the number  *)
(*             or word expected                                            *)
(*    sized    base64 of the wrong number of bytes, or not of a PEM        *)
(*    empty    base64 of no bytes                                          *)
(*    ahead    a timestamp that has not come yet                           *)
(*    alien    base64 of a PEM, but not of an ECC key                      *)
(* The other values that are compared (the serial number, the key, the     *)
(* word in key_type and the period of a certificate) change without a      *)
(* mark, so that key_type may be a legal word and not the key's.           *)
(***************************************************************************)
EXTENDS Integers

NoDamage == [field |-> "none", kind |-> "good"]

CertText      == {"subject", "key_type", "public_key", "issuer", "signature"}
CertNumbers   == {"serial", "not_before", "not_after"}
CertFields    == CertText \cup CertNumbers
PayloadFields == {"version", "algorithm", "signature", "signer_cert", "timestamp"}
Encoded       == {"iv_b64", "tag_b64", "nonce_b64", "ephemeral_pub_b64", "ciphertext_b64"}
MessageFields == Encoded \cup {"version", "algorithm", "timestamp"}
StoredBytes   == {"salt_b64", "iv_b64", "tag_b64", "encrypted_key_b64"}
StorageFields == StoredBytes \cup {"version", "key_type", "algorithm", "iterations"}

(* What can become of the fields F of a document whose fields B are base64.*)
DamageOf(F, B) ==
    [field : F, kind : {"missing", "odd"}]
        \cup [field : F \ (CertNumbers \cup {"timestamp", "signer_cert"}), kind : {"garbled"}]
        \cup [field : B, kind : {"sized", "empty"}]
        \cup [field : F \cap {"timestamp"}, kind : {"ahead"}]
        \cup [field : F \cap {"ephemeral_pub_b64"}, kind : {"alien"}]

(* What became of field f of document d. *)
Kind(d, f) == IF d.bad.field = f THEN d.bad.kind ELSE "good"

IsText(d, f)   == Kind(d, f) \notin {"missing", "odd"}
IsBase64(d, f) == Kind(d, f) \notin {"missing", "odd", "garbled"}
IsSized(d, f)  == Kind(d, f) \notin {"missing", "odd", "garbled", "sized", "empty"}
IsNumber(d, f) == Kind(d, f) \notin {"missing", "odd"}

(* Early returns: a check that does not let pass ends with its verdict; the *)
(* next one is looked at when it does.  (v is the verdict of the first, so *)
(* named for TLC to find it once.)                                         *)
When(condition, verdict) == IF condition THEN verdict ELSE "valid"
first ?? next ==
    CHOOSE r \in {IF v = "valid" THEN next ELSE v : v \in {first}} : TRUE

(* validate_certificate; issuer is not looked at. *)
ValidateCertificate(cert) ==
       When(~IsNumber(cert, "serial") \/ cert.serial <= 0,  "serial")
    ?? When(Kind(cert, "subject") # "good",                 "subject")
    ?? When(Kind(cert, "key_type") # "good",                "key_type")
    ?? When(Kind(cert, "public_key") # "good",              "public_key")
    ?? When(~IsBase64(cert, "signature"),                   "signature")
    ?? When(~IsNumber(cert, "not_before"),                  "not_before")
    ?? When(~IsNumber(cert, "not_after"),                   "not_after")
    ?? When(cert.not_before >= cert.not_after,              "order")

(* Mutant of ValidateSignaturePayload: signer_cert is not looked at. *)
ValidatePayloadOnly(sig) ==
       When(Kind(sig, "version") # "good",                  "version")
    ?? When(Kind(sig, "algorithm") # "good",                "algorithm")
    ?? When(~IsBase64(sig, "signature"),                    "signature")
    ?? When(Kind(sig, "timestamp") # "good",                "timestamp")

(* validate_signature_payload; of signer_cert it asks that seven fields    *)
(* are there, key_type not among them.                                     *)
ValidateSignaturePayload(sig) ==
       When(Kind(sig, "version") # "good",                  "version")
    ?? When(Kind(sig, "algorithm") # "good",                "algorithm")
    ?? When(~IsBase64(sig, "signature"),                    "signature")
    ?? When(Kind(sig, "signer_cert") # "good",              "signer_cert")
    ?? When(\E f \in CertFields \ {"key_type"} : Kind(sig.signer_cert, f) = "missing",
                                                            "signer_cert")
    ?? When(Kind(sig, "timestamp") # "good",                "timestamp")

(* validate_encrypted_message; ephemeral_pub_b64 need only look like PEM. *)
ValidateEncryptedMessage(msg) ==
       When(Kind(msg, "version") # "good",                  "version")
    ?? When(Kind(msg, "algorithm") # "good",                "algorithm")
    ?? When(\E f \in {"iv_b64", "tag_b64", "nonce_b64"} : ~IsSized(msg, f), "bytes")
    ?? When(Kind(msg, "ephemeral_pub_b64") \notin {"good", "alien"},
                                                            "ephemeral_pub_b64")
    ?? When(\/ ~IsBase64(msg, "ciphertext_b64")
            \/ Kind(msg, "ciphertext_b64") = "empty"
            \/ msg.plaintext = "empty",                     "ciphertext_b64")
    ?? When(~IsNumber(msg, "timestamp"),                    "timestamp")

(* validate_key_storage. *)
ValidateKeyStorage(storage) ==
       When(Kind(storage, "version") # "good",              "version")
    ?? When(Kind(storage, "key_type") # "good",             "key_type")
    ?? When(Kind(storage, "algorithm") # "good",            "algorithm")
    ?? When(Kind(storage, "iterations") # "good",           "iterations")
    ?? When(\E f \in {"salt_b64", "iv_b64", "tag_b64"} : ~IsSized(storage, f), "bytes")
    ?? When(\/ ~IsBase64(storage, "encrypted_key_b64")
            \/ Kind(storage, "encrypted_key_b64") = "empty", "encrypted_key_b64")
=============================================================================
