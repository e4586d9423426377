\* One restart without failures.
CONSTANTS
    Users = {"alice", "bob"}
    RelayNodes <- ThreeNodes
    FirstSerial = 1000
    ValidityDays = 1
    CASubject = "DarkTunnel-CA"
    CADays = 3
    Faults = FALSE
    MaxStarts = 2
    MaxSerial = 1004
    MaxDay = 0
SPECIFICATION Spec
CHECK_DEADLOCK FALSE
INVARIANTS
    ServingNodesValid
