\* Statements may throw and the process may die at any step.
CONSTANTS
    Nonces = {n1, n2}
    ClientNonces = {n1}
    Nodes = {node}
    Senders = {alice}
    Msgs = {m1}
    Window = 1
    None = None
    Unbindable = Unbindable
    NaN = NaN
    Ahead = 0
    MaxNow = 2
    DbFaults = TRUE
    Crashes = TRUE
SPECIFICATION MessageSpec
SYMMETRY IdSymmetry
INVARIANTS
    MessageTypeOK
    DeliveredIsTrue
    ToldIsFinal
PROPERTIES
    RelaySpec
