----------------------- MODULE MCCertificateAuthority ----------------------
(* TLC instance of CertificateAuthority: processes are interchangeable.    *)
EXTENDS CertificateAuthority, TLC

ProcSymmetry == Permutations(Procs)
=============================================================================
