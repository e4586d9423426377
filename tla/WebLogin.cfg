\* Two tabs, one user.
CONSTANTS
    Users = {alice}
    Clients = {c1}
    Tabs = {tab1, tab2}
    Window = 2
    MaxRequests = 3
    MaxLogin = 2
    TokenLife = 2
    DbFaults = TRUE
    MaxNow = 2
SPECIFICATION WebSpec
PROPERTIES
    LoginKeepsToken
