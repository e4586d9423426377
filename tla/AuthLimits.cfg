\* One client, three requests and one failed login in a window of two ticks;
\* tokens live for one tick.
CONSTANTS
    Users = {alice}
    Clients = {c1}
    Window = 2
    MaxRequests = 3
    MaxLogin = 1
    TokenLife = 1
    DbFaults = TRUE
    MaxNow = 3
SPECIFICATION Spec
INVARIANTS
    TypeOK
    FailedLoginsLimited
    AdminWasAdmin
    RecordsAreTrue
