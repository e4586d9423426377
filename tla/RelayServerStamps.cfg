\* Timestamps of any client: behind the server's clock, ahead of it, or no number.
CONSTANTS
    Nonces = {n1, n2}
    Nodes = {node}
    Senders = {alice}
    Window = 1
    None = None
    Unbindable = Unbindable
    NaN = NaN
    Ahead = 1
    MaxNow = 3
    DbFaults = TRUE
SPECIFICATION RelaySpec
SYMMETRY NonceSymmetry
INVARIANTS
    RelayTypeOK
    NonceRowsUnique
PROPERTIES
    AtMostOnce
    OncePerWindow
    
