\* Two threads check the same nonces; whoever holds the lock keeps running.
CONSTANTS
    Threads = {t1, t2}
    Nonces = {n1, n2}
    Window = 1
    Tolerance = 1
    MaxNow = 3
SPECIFICATION FairSpec
INVARIANTS
    TypeOK
    OneInside
PROPERTIES
    NotAcceptedTwiceInWindow
    LockIsReleased
