\* One process at a time; it may be interrupted anywhere.
CONSTANTS
    Procs = {p1}
    FirstSerial = 1000
    Interrupts = TRUE
    MaxKeys = 3
    MaxSerial = 1003
SPECIFICATION Spec
CHECK_DEADLOCK FALSE
INVARIANTS
    TypeOK
    SerialsIncrease
    RevocationsKept
    IssuedVerifies
    InitializedIsUsable
PROPERTIES
    ImplementsRegister
