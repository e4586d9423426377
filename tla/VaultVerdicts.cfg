\* Two directories, an RSA pair and an ECC pair; writes may be interrupted.
CONSTANTS
    Homes = {here, there}
    RSAPairs = {rsa}
    ECCPairs = {ecc}
    Contents <- TwoContents
    Nobody = Nobody
    Validity = 1
    FirstSerial = 1000
    Interrupts = TRUE
    MaxSerial = 1000
    Revocable = {1000}
    MaxNow = 2
SPECIFICATION Spec
SYMMETRY Symmetry
CHECK_DEADLOCK FALSE
INVARIANTS
    TypeOK
    ValidIsSigned
    
    NoRevival
