---------------------------- MODULE AuthService ---------------------------
(***************************************************************************)
(* Accounts, sessions and rate limits of the backend:                      *)
(* middleware/rateLimiter.js, validator.js, authMiddleware.js,             *)
(* controllers/authController.js, adminController.js and                   *)
(* services/authService.js.  A request is handled by one action: its       *)
(* middlewares in the order in which index.js and the routes mount them,   *)
(* then the controller.  The handlers are synchronous, but their           *)
(* statements commit one by one and can throw, which is a disjunct of its  *)
(* own here.  What is not synchronous is the correction of the login       *)
(* counter, made when a response has been sent: FinishLogin.               *)
(***************************************************************************)
EXTENDS Integers

CONSTANTS
    Users,        \* usernames
    Clients,      \* IP addresses
    Window,       \* RATE_LIMIT_WINDOW_MS
    MaxRequests,  \* RATE_LIMIT_MAX_REQUESTS
    MaxLogin,     \* RATE_LIMIT_MAX_LOGIN
    TokenLife,    \* JWT_EXPIRY
    DbFaults,     \* TRUE when a statement may throw
    MaxNow        \* bound: the last reading of the clock

ASSUME WindowAssumption == Window \in Nat \ {0}
ASSUME LimitAssumption  == MaxRequests \in Nat /\ MaxLogin \in Nat
ASSUME LifeAssumption   == TokenLife \in Nat
ASSUME BoundAssumption  == MaxNow \in Nat
ASSUME FaultAssumption  == DbFaults \in BOOLEAN

VARIABLES
    now,        \* the clock
    accounts,   \* the users table: the role of each user that has a row
    audit,      \* the audit_logs table: <<event type, user>>
    general,    \* the counters of generalLimiter
    logins,     \* the counters of loginLimiter
    tokens,     \* the JWTs handed out
    created,    \* history: the users whose registration was answered 201
    attempts,   \* history, per client: what its login window has seen
    lastAdmin   \* history: when a user's row last said admin

tables  == <<accounts, audit>>
limits  == <<general, logins, attempts>>
authVars == <<now, tables, limits, tokens, created, lastAdmin>>

Events  == {"USER_REGISTERED", "USER_LOGIN", "LOGIN_FAILED"}
Token   == [user : Users, role : {"user", "admin"}, exp : Nat]
NoToken == [user |-> "none", role |-> "none", exp |-> 0]
Counter == [hits : Nat, reset : Nat]

(* failed: answered with an error after the limiter let them pass; sent,   *)
(* earlier: successful logins of this window, or of one before it, whose   *)
(* response is not finished; late: corrections made for earlier windows.   *)
Attempts == [failed : Nat, sent : Nat, earlier : Nat, late : Nat]

Unused     == [hits |-> 0, reset |-> 0]
NoAttempts == [failed |-> 0, sent |-> 0, earlier |-> 0, late |-> 0]
NeverAdmin == 0 - TokenLife

Init ==
    /\ now = 0
    /\ accounts = [u \in Users |-> "absent"]
    /\ audit = {}
    /\ general = [c \in Clients |-> Unused]
    /\ logins = [c \in Clients |-> Unused]
    /\ tokens = {}
    /\ created = {}
    /\ attempts = [c \in Clients |-> NoAttempts]
    /\ lastAdmin = [u \in Users |-> NeverAdmin]

Log(event, u) == audit' = audit \cup {<<event, u>>}

NewToken(u) == [user |-> u, role |-> accounts[u], exp |-> now + TokenLife]

(* The answers r of the handlers below: a status code, and a token when a  *)
(* login succeeds.                                                         *)
Codes   == {201, 400, 401, 403, 404, 409, 429, 500}
Simple(code) == [code |-> code, token |-> NoToken]
Session(u)   == [code |-> 200, token |-> NewToken(u)]
Answers == {Simple(code) : code \in Codes \cup {200}}
             \cup {Session(u) : u \in {v \in Users : accounts[v] # "absent"}}

Fails(r) == DbFaults /\ r = Simple(500)

Answered(r, codes) == (r.code \in codes /\ r.token = NoToken) \/ Fails(r)

-----------------------------------------------------------------------------
(* The limiters.  A window begins with a client's first request and has a  *)
(* fixed length, whatever is counted in it.                                *)

(* MemoryStore.increment *)
Increment(k) ==
    IF k.reset <= now THEN [hits |-> 1, reset |-> now + Window]
                      ELSE [k EXCEPT !.hits = @ + 1]

(* Mutant of Decrement: the counter may go below zero. *)
DecrementAnyway(k) == [k EXCEPT !.hits = @ - 1]

(* MemoryStore.decrement: of the window it finds, not of the request's. *)
Decrement(k) == IF k.hits > 0 THEN [k EXCEPT !.hits = @ - 1] ELSE k

Over(limiter, c, max) == Increment(limiter[c]).hits > max

(* Bound: once a client is refused, its requests are followed again when   *)
(* its window is over; in between they would only be counted.              *)
Asks(c) == general[c].reset <= now \/ general[c].hits <= MaxRequests

GeneralLimiter(c) ==
    /\ Asks(c)
    /\ general' = [general EXCEPT ![c] = Increment(@)]

Admitted(c) == GeneralLimiter(c) /\ ~Over(general, c, MaxRequests)

OnlyCounted == UNCHANGED <<now, tables, logins, attempts, tokens, created, lastAdmin>>

Refuse(c, r) ==
    /\ GeneralLimiter(c)
    /\ Over(general, c, MaxRequests)
    /\ r = Simple(429)
    /\ OnlyCounted

(* The attempts of the window a login belongs to. *)
Attempted(c) ==
    IF logins[c].reset <= now
    THEN [NoAttempts EXCEPT !.earlier = attempts[c].earlier + attempts[c].sent]
    ELSE attempts[c]

Failed(c) == attempts' = [attempts EXCEPT ![c] = [Attempted(c) EXCEPT !.failed = @ + 1]]
Passed(c) == attempts' = [attempts EXCEPT ![c] = [Attempted(c) EXCEPT !.sent = @ + 1]]

CameLate(a) == [failed  |-> a.failed,      sent |-> a.sent,
                earlier |-> a.earlier - 1, late |-> a.late + 1]

(* Mutant of FinishLogin: with skipFailedRequests the corrections are for  *)
(* what failed.                                                            *)
FinishFailed(c) ==
    /\ attempts[c].failed > 0
    /\ logins' = [logins EXCEPT ![c] = Decrement(@)]
    /\ UNCHANGED <<now, tables, general, attempts, tokens, created, lastAdmin>>

(* skipSuccessfulRequests: the 'finish' event of a successful response     *)
(* takes its hit back, from the counter as it is then.                     *)
FinishLogin(c) ==
    /\ \/ /\ attempts[c].sent > 0
          /\ attempts' = [attempts EXCEPT ![c].sent = @ - 1]
       \/ /\ attempts[c].earlier > 0
          /\ attempts' = [attempts EXCEPT ![c] = CameLate(@)]
    /\ logins' = [logins EXCEPT ![c] = Decrement(@)]
    /\ UNCHANGED <<now, tables, general, tokens, created, lastAdmin>>

-----------------------------------------------------------------------------
(* POST /api/register: validateRegistration, then the uniqueness check,    *)
(* the keys and the certificate, the row and its audit entry.              *)

Created(u, r) == r = Simple(201) /\ created' = created \cup {u}

(* Mutant of Insert: the audit entry comes before the row. *)
InsertAfterLog(u, r) ==
    \/ /\ Log("USER_REGISTERED", u)
       /\ \/ accounts' = [accounts EXCEPT ![u] = "user"] /\ Created(u, r)
          \/ Fails(r) /\ UNCHANGED <<accounts, created>>
    \/ Fails(r) /\ UNCHANGED <<tables, created>>

Insert(u, r) ==
    \/ /\ accounts' = [accounts EXCEPT ![u] = "user"]
       /\ \/ Log("USER_REGISTERED", u) /\ Created(u, r)
          \/ Fails(r) /\ UNCHANGED <<audit, created>>
    \/ Fails(r) /\ UNCHANGED <<tables, created>>

Register(c, r) ==
    /\ Admitted(c)
    /\ \/ r = Simple(400) /\ UNCHANGED <<tables, created>>
       \/ \E u \in Users : accounts[u] = "absent" /\ Insert(u, r)
       \/ /\ \E u \in Users : accounts[u] # "absent"
          /\ r = Simple(409)
          /\ UNCHANGED <<tables, created>>
    /\ UNCHANGED <<now, logins, attempts, tokens, lastAdmin>>

-----------------------------------------------------------------------------
(* POST /api/login: loginLimiter, validateLogin, then the service.         *)

(* The right password of a user that exists. *)
Succeed(c, u, r) ==
    /\ accounts[u] # "absent"
    /\ \/ /\ Log("USER_LOGIN", u)
          /\ tokens' = tokens \cup {NewToken(u)}
          /\ r = Session(u)
          /\ Passed(c)
       \/ Fails(r) /\ Failed(c) /\ UNCHANGED <<audit, tokens>>

(* A wrong password, which is logged, or an unknown user, which is not. *)
Reject(c, u, r) ==
    /\ \/ accounts[u] # "absent" /\ Log("LOGIN_FAILED", u) /\ r = Simple(401)
       \/ accounts[u] # "absent" /\ Fails(r) /\ UNCHANGED audit
       \/ accounts[u] = "absent" /\ r = Simple(401) /\ UNCHANGED audit
    /\ Failed(c)
    /\ UNCHANGED tokens

(* validateLogin: a username and a password, of whatever length. *)
Malformed(c, r) == r = Simple(400) /\ Failed(c) /\ UNCHANGED <<audit, tokens>>

Login(c, r) ==
    /\ Admitted(c)
    /\ logins' = [logins EXCEPT ![c] = Increment(@)]
    /\ IF Over(logins, c, MaxLogin)
       THEN /\ r = Simple(429)
            /\ attempts' = [attempts EXCEPT ![c] = Attempted(c)]
            /\ UNCHANGED <<audit, tokens>>
       ELSE \/ Malformed(c, r)
            \/ \E u \in Users : Succeed(c, u, r) \/ Reject(c, u, r)
    /\ UNCHANGED <<now, accounts, created, lastAdmin>>

-----------------------------------------------------------------------------
(* The routes behind authMiddleware, with a token or with none.  What their *)
(* handlers do to messages and certificates is in modules MessageService   *)
(* and PKIService; the audit entries they write are left out.              *)

(* Mutant of Verified: only the signature counts. *)
VerifiedIgnoringExpiry(t) == t \in tokens

(* authMiddleware: a signature of ours, and not expired. *)
Verified(t) == t \in tokens /\ now < t.exp

(* The role is the one the token was given at login. *)
MayAdminister(t) == Verified(t) /\ t.role = "admin"

(* A handler for any user.  Rows of users are never deleted, so that a     *)
(* token's user is not found does not happen.                              *)
ForUser(c, t, r, codes) ==
    /\ \/ ~Verified(t) /\ r = Simple(401)
       \/ Verified(t) /\ Answered(r, codes)
    /\ Admitted(c)
    /\ OnlyCounted

(* A handler that looks at the role first. *)
ForAdmin(c, t, r, codes) ==
    /\ \/ ~Verified(t) /\ r = Simple(401)
       \/ Verified(t) /\ ~MayAdminister(t) /\ r = Simple(403)
       \/ MayAdminister(t) /\ Answered(r, codes)
    /\ Admitted(c)
    /\ OnlyCounted

(* 400 by validateSendMessage; 200 whatever became of the message. *)
SendMessage(c, t, r)      == ForUser(c, t, r, {200, 400})
GetMessageStatus(c, t, r) == ForUser(c, t, r, {200, 400, 403, 404})
GetUserMessages(c, t, r)  == ForUser(c, t, r, {200})
GenerateCert(c, t, r)     == ForUser(c, t, r, {200})
VerifyCert(c, t, r)       == ForUser(c, t, r, {200, 400, 404})
RevokeCert(c, t, r)       == ForAdmin(c, t, r, {200, 400})
GetLogs(c, t, r)          == ForAdmin(c, t, r, {200})

(* POST /api/relay/process needs no token; 500 for what does not decrypt. *)
ProcessPacket(c, r) ==
    /\ Answered(r, {200, 400, 500})
    /\ Admitted(c)
    /\ OnlyCounted

WithToken(c, t, r) ==
    \/ SendMessage(c, t, r)
    \/ GetMessageStatus(c, t, r)
    \/ GetUserMessages(c, t, r)
    \/ GenerateCert(c, t, r)
    \/ VerifyCert(c, t, r)
    \/ RevokeCert(c, t, r)
    \/ GetLogs(c, t, r)

Request(c, r) ==
    \/ Refuse(c, r)
    \/ Register(c, r)
    \/ Login(c, r)
    \/ ProcessPacket(c, r)
    \/ \E t \in tokens \cup {NoToken} : WithToken(c, t, r)

-----------------------------------------------------------------------------
(* The process and what surrounds it.                                      *)

(* The counters are in memory; so are the responses not yet finished. *)
Restart ==
    /\ general' = [c \in Clients |-> Unused]
    /\ logins' = [c \in Clients |-> Unused]
    /\ attempts' = [c \in Clients |-> NoAttempts]
    /\ UNCHANGED <<now, tables, tokens, created, lastAdmin>>

(* An operator edits the users table: no endpoint changes a role. *)
SetRole(u, role) ==
    /\ accounts[u] # "absent"
    /\ accounts' = [accounts EXCEPT ![u] = role]
    /\ lastAdmin' = IF role = "admin" THEN [lastAdmin EXCEPT ![u] = now] ELSE lastAdmin
    /\ UNCHANGED <<now, audit, limits, tokens, created>>

Tick ==
    /\ now < MaxNow
    /\ now' = now + 1
    /\ lastAdmin' = [u \in Users |-> IF accounts[u] = "admin" THEN now' ELSE lastAdmin[u]]
    /\ UNCHANGED <<tables, limits, tokens, created>>

Next ==
    \/ \E c \in Clients, r \in Answers : Request(c, r)
    \/ \E c \in Clients : FinishLogin(c)
    \/ \E u \in Users, role \in {"user", "admin"} : SetRole(u, role)
    \/ Restart
    \/ Tick

Spec == Init /\ [][Next]_authVars

-----------------------------------------------------------------------------
(* Properties.                                                             *)

TypeOK ==
    /\ now \in 0..MaxNow
    /\ accounts \in [Users -> {"absent", "user", "admin"}]
    /\ audit \subseteq Events \X Users
    /\ general \in [Clients -> Counter]
    /\ logins \in [Clients -> Counter]
    /\ tokens \subseteq Token
    /\ created \subseteq Users
    /\ attempts \in [Clients -> Attempts]
    /\ lastAdmin \in [Users -> Int]

(* Within one window a client fails at most MaxLogin times, whatever       *)
(* succeeds in between: taking back the hits of successful logins when     *)
(* their responses finish takes back no failure, unless a response begun   *)
(* in an earlier window finishes in this one (rateLimiter.js, "Only count  *)
(* failures").                                                             *)
FailedLoginsLimited ==
    \A c \in Clients : attempts[c].failed <= MaxLogin + attempts[c].late

(* Whoever may read the audit log or revoke certificates was an admin less *)
(* than a token's life ago: a role that is taken away survives in the      *)
(* tokens for that long and no longer (authMiddleware.js,                  *)
(* adminController.js, pkiController.js).                                  *)
AdminWasAdmin ==
    \A t \in tokens : MayAdminister(t) => now < lastAdmin[t.user] + TokenLife

(* The tables and what clients were told agree, whichever statement of a   *)
(* registration or a login throws: nothing is logged of a user without a   *)
(* row, and no session was handed out without its audit entry              *)
(* (authService.js).                                                       *)
RecordsAreTrue ==
    /\ \A e \in audit : accounts[e[2]] # "absent"
    /\ \A t \in tokens : <<"USER_LOGIN", t.user>> \in audit
    /\ \A u \in created : <<"USER_REGISTERED", u>> \in audit
=============================================================================
