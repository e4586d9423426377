\* The same packet presented again, whatever it is stamped with.
CONSTANTS
    Nonces = {n1, n2}
    Nodes = {node}
    Senders = {alice}
    Window = 1
    None = None
    Unbindable = Unbindable
    NaN = NaN
    Ahead = 1
    MaxNow = 3
    DbFaults = TRUE
SPECIFICATION RelaySpec
SYMMETRY NonceSymmetry
INVARIANTS
    ReplayRejected
