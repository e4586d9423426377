\* Restarts, crashes and failing writes.
CONSTANTS
    Users = {"alice"}
    RelayNodes <- TwoNodes
    FirstSerial = 1000
    ValidityDays = 0
    CASubject = "DarkTunnel-CA"
    CADays = 3
    Faults = TRUE
    MaxStarts = 2
    MaxSerial = 1003
    MaxDay = 1
SPECIFICATION Spec
CHECK_DEADLOCK FALSE
INVARIANTS
    TypeOK
    RevokedStaysRevoked
    RefusedWasRequested
    SerialsUniquePerKey
    NodeSerialsReserved
    NodesComplete
