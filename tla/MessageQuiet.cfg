\* Nothing throws and nothing dies; a handler runs to its end.
CONSTANTS
    Nonces = {n1, n2}
    ClientNonces = {}
    Nodes = {node}
    Senders = {alice}
    Msgs = {m1, m2}
    Window = 1
    None = None
    Unbindable = Unbindable
    NaN = NaN
    Ahead = 0
    MaxNow = 2
    DbFaults = FALSE
    Crashes = FALSE
SPECIFICATION FairMessageSpec
INVARIANTS
    NothingLeftPending
    StatusFollowsRelay
PROPERTIES
    SendIsAnswered
