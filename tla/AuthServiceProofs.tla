------------------------- MODULE AuthServiceProofs ------------------------
(* Proofs about modules AuthService and WebClient, for all values of their *)
(* constants.                                                              *)
EXTENDS WebClient, TLAPS

-----------------------------------------------------------------------------
(* What the limiter's operators return. *)
LEMMA IncrementType ==
    ASSUME NEW k \in Counter, now \in Nat
    PROVE  /\ Increment(k) \in Counter
           /\ Increment(k).hits \in Nat \ {0}
           /\ k.reset <= now => Increment(k).hits = 1
           /\ ~(k.reset <= now) => Increment(k).hits = k.hits + 1
BY WindowAssumption DEF Increment, Counter

LEMMA DecrementType ==
    ASSUME NEW k \in Counter
    PROVE  /\ Decrement(k) \in Counter
           /\ Decrement(k).hits >= k.hits - 1
BY DEF Decrement, Counter

LEMMA AttemptedType ==
    ASSUME TypeOK, NEW c \in Clients
    PROVE  /\ Attempted(c) \in Attempts
           /\ logins[c].reset <= now =>
                /\ Attempted(c).failed = 0
                /\ Attempted(c).sent = 0
                /\ Attempted(c).late = 0
           /\ ~(logins[c].reset <= now) => Attempted(c) = attempts[c]
BY DEF TypeOK, Attempted, Attempts, NoAttempts

-----------------------------------------------------------------------------
(* A request that is refused, or handled behind authMiddleware or by the   *)
(* relay, touches the general counter and no more.                         *)
LEMMA CountedOnly ==
    ASSUME NEW c \in Clients, NEW r, NEW t,
           Refuse(c, r) \/ ProcessPacket(c, r) \/ WithToken(c, t, r)
    PROVE  GeneralLimiter(c) /\ OnlyCounted
<1>1. ASSUME NEW codes, ForUser(c, t, r, codes) \/ ForAdmin(c, t, r, codes)
      PROVE  GeneralLimiter(c) /\ OnlyCounted
  BY <1>1 DEF ForUser, ForAdmin, Admitted
<1>2. CASE WithToken(c, t, r)
  BY <1>1, <1>2 DEF WithToken, SendMessage, GetMessageStatus, GetUserMessages,
                    GenerateCert, VerifyCert, RevokeCert, GetLogs
<1> QED BY <1>2 DEF Refuse, ProcessPacket, Admitted

(* Type correctness. *)
LEMMA InitTypeOK == Init => TypeOK
BY WindowAssumption, LifeAssumption, BoundAssumption
   DEF Init, TypeOK, Unused, NoAttempts, NeverAdmin, Counter, Attempts, Events, Token

LEMMA StepTypeOK == TypeOK /\ [Next]_authVars => TypeOK'
<1> SUFFICES ASSUME TypeOK, [Next]_authVars PROVE TypeOK'
  OBVIOUS
<1> USE DEF tables, limits
<1>0. now \in Nat
  BY BoundAssumption DEF TypeOK
<1>g. ASSUME NEW c \in Clients, GeneralLimiter(c) PROVE general' \in [Clients -> Counter]
  <2>1. Increment(general[c]) \in Counter
    BY <1>0, IncrementType DEF TypeOK
  <2> QED BY <1>g, <2>1 DEF GeneralLimiter, TypeOK
<1>a. ASSUME NEW c \in Clients PROVE Attempted(c) \in Attempts
  BY AttemptedType
<1>l. ASSUME NEW e \in Events, NEW u \in Users, Log(e, u) PROVE audit' \subseteq Events \X Users
  BY <1>l DEF Log, TypeOK
<1>1. ASSUME NEW c \in Clients, NEW r, NEW t,
             Refuse(c, r) \/ ProcessPacket(c, r) \/ WithToken(c, t, r)
      PROVE  TypeOK'
  <2>1. GeneralLimiter(c) /\ OnlyCounted
    BY <1>1, CountedOnly
  <2>2. general' \in [Clients -> Counter]
    BY <1>g, <2>1
  <2> QED BY <2>1, <2>2 DEF OnlyCounted, TypeOK
<1>2. ASSUME NEW c \in Clients, NEW r, Register(c, r) PROVE TypeOK'
  <2>1. general' \in [Clients -> Counter]
    BY <1>2, <1>g DEF Register, Admitted
  <2>2. /\ accounts' \in [Users -> {"absent", "user", "admin"}]
        /\ audit' \subseteq Events \X Users
        /\ created' \subseteq Users
    <3>1. CASE UNCHANGED <<tables, created>>
      BY <3>1 DEF TypeOK
    <3>2. ASSUME NEW u \in Users, Insert(u, r)
          PROVE  /\ accounts' \in [Users -> {"absent", "user", "admin"}]
                 /\ audit' \subseteq Events \X Users
                 /\ created' \subseteq Users
      <4>1. "USER_REGISTERED" \in Events
        BY DEF Events
      <4>2. audit' = audit \/ Log("USER_REGISTERED", u)
        BY <3>2 DEF Insert
      <4>3. audit' \subseteq Events \X Users
        BY <4>1, <4>2, <1>l DEF TypeOK
      <4> QED BY <3>2, <4>3 DEF Insert, Created, TypeOK
    <3> QED BY <1>2, <3>1, <3>2 DEF Register
  <2> QED BY <1>2, <2>1, <2>2 DEF Register, TypeOK
<1>3. ASSUME NEW c \in Clients, NEW r, Login(c, r) PROVE TypeOK'
  <2>1. general' \in [Clients -> Counter]
    BY <1>3, <1>g DEF Login, Admitted
  <2>2. logins' \in [Clients -> Counter]
    <3>1. Increment(logins[c]) \in Counter
      BY <1>0, IncrementType DEF TypeOK
    <3> QED BY <1>3, <3>1 DEF Login, TypeOK
  <2>3. \/ attempts' = [attempts EXCEPT ![c] = Attempted(c)]
        \/ Failed(c)
        \/ Passed(c)
    BY <1>3 DEF Login, Malformed, Succeed, Reject
  <2>4. attempts' \in [Clients -> Attempts]
    <3>1. /\ [Attempted(c) EXCEPT !.failed = @ + 1] \in Attempts
          /\ [Attempted(c) EXCEPT !.sent = @ + 1] \in Attempts
      BY <1>a DEF Attempts
    <3>2. PICK a \in Attempts : attempts' = [attempts EXCEPT ![c] = a]
      BY <2>3, <3>1, <1>a DEF Failed, Passed
    <3> QED BY <3>2 DEF TypeOK
  <2>5. /\ audit' \subseteq Events \X Users
        /\ tokens' \subseteq Token
    <3>1. CASE UNCHANGED <<audit, tokens>>
      BY <3>1 DEF TypeOK
    <3>2. ASSUME NEW u \in Users, Succeed(c, u, r)
          PROVE  audit' \subseteq Events \X Users /\ tokens' \subseteq Token
      <4>1. NewToken(u) \in Token
        BY <1>0, <3>2, LifeAssumption DEF NewToken, Token, Succeed, TypeOK
      <4>2. "USER_LOGIN" \in Events
        BY DEF Events
      <4>3. audit' = audit \/ Log("USER_LOGIN", u)
        BY <3>2 DEF Succeed
      <4>4. tokens' = tokens \/ tokens' = tokens \cup {NewToken(u)}
        BY <3>2 DEF Succeed
      <4> QED BY <4>1, <4>2, <4>3, <4>4, <1>l DEF TypeOK
    <3>3. ASSUME NEW u \in Users, Reject(c, u, r)
          PROVE  audit' \subseteq Events \X Users /\ tokens' \subseteq Token
      <4>1. "LOGIN_FAILED" \in Events
        BY DEF Events
      <4>2. /\ audit' = audit \/ Log("LOGIN_FAILED", u)
            /\ tokens' = tokens
        BY <3>3 DEF Reject
      <4> QED BY <4>1, <4>2, <1>l DEF TypeOK
    <3> QED BY <1>3, <3>1, <3>2, <3>3 DEF Login, Malformed
  <2> QED BY <1>3, <2>1, <2>2, <2>4, <2>5 DEF Login, TypeOK
<1>5. ASSUME NEW c \in Clients, FinishLogin(c) PROVE TypeOK'
  <2>1. Decrement(logins[c]) \in Counter
    BY DecrementType DEF TypeOK
  <2>2. logins' \in [Clients -> Counter]
    BY <1>5, <2>1 DEF FinishLogin, TypeOK
  <2>3. attempts' \in [Clients -> Attempts]
    <3>0. attempts[c] \in Attempts
      BY DEF TypeOK
    <3>1. CASE /\ attempts[c].sent > 0
               /\ attempts' = [attempts EXCEPT ![c].sent = @ - 1]
      <4>1. [attempts[c] EXCEPT !.sent = @ - 1] \in Attempts
        BY <3>0, <3>1 DEF Attempts
      <4> QED BY <3>1, <4>1 DEF TypeOK
    <3>2. CASE /\ attempts[c].earlier > 0
               /\ attempts' = [attempts EXCEPT ![c] = CameLate(@)]
      <4>1. CameLate(attempts[c]) \in Attempts
        BY <3>0, <3>2 DEF CameLate, Attempts
      <4> QED BY <3>2, <4>1 DEF TypeOK
    <3> QED BY <1>5, <3>1, <3>2 DEF FinishLogin
  <2> QED BY <1>5, <2>2, <2>3 DEF FinishLogin, TypeOK
<1>6. ASSUME NEW u \in Users, NEW role \in {"user", "admin"}, SetRole(u, role) PROVE TypeOK'
  BY <1>6, <1>0 DEF SetRole, TypeOK
<1>7. CASE Restart
  BY <1>7 DEF Restart, Unused, NoAttempts, Counter, Attempts, TypeOK
<1>8. CASE Tick
  <2>1. now' \in 0..MaxNow
    BY <1>8, <1>0, BoundAssumption DEF Tick, TypeOK
  <2>2. lastAdmin' \in [Users -> Int]
    BY <1>8, <1>0 DEF Tick, TypeOK
  <2> QED BY <1>8, <2>1, <2>2 DEF Tick, TypeOK
<1>9. CASE UNCHANGED authVars
  BY <1>9 DEF authVars, TypeOK
<1> QED BY <1>1, <1>2, <1>3, <1>5, <1>6, <1>7, <1>8, <1>9 DEF Next, Request

(* The counters are never negative, what is logged and handed out is of    *)
(* the users and events there are, in every instance of AuthService.       *)
THEOREM TypeCorrect == Spec => []TypeOK
BY InitTypeOK, StepTypeOK, PTL DEF Spec

-----------------------------------------------------------------------------
(* The limit on failed logins.                                             *)

(* The counter covers what its window let pass and has not been taken back *)
(* from it, but for the corrections that came late.                        *)
Covers(c) == attempts[c].failed + attempts[c].sent <= logins[c].hits + attempts[c].late

Within(c) == attempts[c].failed <= MaxLogin + attempts[c].late

LoginInv == \A c \in Clients : Covers(c) /\ Within(c)

LEMMA InitLoginInv == Init => LoginInv
BY LimitAssumption DEF Init, LoginInv, Covers, Within, Unused, NoAttempts

(* A login counts itself, as a failure only when the limiter let it pass. *)
LEMMA LoginCounts ==
    ASSUME TypeOK, NEW c \in Clients, NEW r, Login(c, r), Covers(c), Within(c)
    PROVE  Covers(c)' /\ Within(c)'
<1> DEFINE A == Attempted(c)  H == Increment(logins[c])
<1>0. now \in Nat /\ MaxLogin \in Nat
  BY BoundAssumption, LimitAssumption DEF TypeOK
<1>1. /\ logins[c] \in Counter
      /\ attempts[c] \in Attempts
      /\ H \in Counter
      /\ A \in Attempts
  BY <1>0, IncrementType, AttemptedType DEF TypeOK
<1>2. /\ logins'[c] = H
      /\ \/ attempts'[c] = A
         \/ attempts'[c] = [A EXCEPT !.failed = @ + 1] /\ H.hits <= MaxLogin
         \/ attempts'[c] = [A EXCEPT !.sent = @ + 1]
  <2>1. logins'[c] = H
    BY DEF Login, TypeOK
  <2>2. Over(logins, c, MaxLogin) => attempts'[c] = A
    BY DEF Login, TypeOK
  <2>3. ~Over(logins, c, MaxLogin) => Failed(c) \/ Passed(c)
    BY DEF Login, Malformed, Succeed, Reject
  <2>4. ~Over(logins, c, MaxLogin) => H.hits <= MaxLogin
    BY <1>0, <1>1 DEF Over, Counter
  <2> QED BY <2>1, <2>2, <2>3, <2>4 DEF Failed, Passed, TypeOK
<1>3. /\ A.failed + A.sent + 1 <= H.hits + A.late
      /\ A.failed <= MaxLogin + A.late
  <2>1. CASE logins[c].reset <= now
    <3>1. H.hits = 1 /\ A.failed = 0 /\ A.sent = 0 /\ A.late = 0
      BY <1>0, <1>1, <2>1, IncrementType, AttemptedType
    <3> QED BY <3>1, <1>0
  <2>2. CASE ~(logins[c].reset <= now)
    <3>1. H.hits = logins[c].hits + 1 /\ A = attempts[c]
      BY <1>0, <1>1, <2>2, IncrementType, AttemptedType
    <3> HIDE DEF A, H
    <3> QED BY <3>1, <1>0, <1>1 DEF Covers, Within, Counter, Attempts
  <2> QED BY <2>1, <2>2
<1> HIDE DEF A, H
<1>4. /\ attempts'[c].late = A.late
      /\ \/ attempts'[c].failed = A.failed /\ attempts'[c].sent = A.sent
         \/ attempts'[c].failed = A.failed + 1 /\ attempts'[c].sent = A.sent /\ H.hits <= MaxLogin
         \/ attempts'[c].failed = A.failed /\ attempts'[c].sent = A.sent + 1
  BY <1>1, <1>2 DEF Attempts
<1> QED BY <1>0, <1>1, <1>2, <1>3, <1>4 DEF Covers, Within, Counter, Attempts

(* A correction takes at most one hit: that of the login it is for, or,    *)
(* when that was in an earlier window, one that is booked as late.         *)
LEMMA FinishCounts ==
    ASSUME TypeOK, NEW c \in Clients, FinishLogin(c), Covers(c), Within(c)
    PROVE  Covers(c)' /\ Within(c)'
<1>0. MaxLogin \in Nat
  BY LimitAssumption
<1>1. attempts[c] \in Attempts /\ logins[c] \in Counter
  BY DEF TypeOK
<1>2. /\ logins'[c].hits >= logins[c].hits - 1
      /\ logins'[c].hits \in Nat
  <2>1. logins'[c] = Decrement(logins[c])
    BY DEF FinishLogin, TypeOK
  <2> QED BY <1>1, <2>1, DecrementType DEF Counter
<1>3. \/ /\ attempts'[c].sent = attempts[c].sent - 1
         /\ attempts'[c].failed = attempts[c].failed
         /\ attempts'[c].late = attempts[c].late
      \/ /\ attempts'[c].sent = attempts[c].sent
         /\ attempts'[c].failed = attempts[c].failed
         /\ attempts'[c].late = attempts[c].late + 1
  BY <1>1 DEF FinishLogin, CameLate, Attempts, TypeOK
<1> QED BY <1>0, <1>1, <1>2, <1>3 DEF Covers, Within, Counter, Attempts

LEMMA StepLoginInv == TypeOK /\ LoginInv /\ [Next]_authVars => LoginInv'
<1> SUFFICES ASSUME TypeOK, LoginInv, [Next]_authVars, NEW d \in Clients
             PROVE  Covers(d)' /\ Within(d)'
  BY DEF LoginInv
<1>0. Covers(d) /\ Within(d)
  BY DEF LoginInv
<1>1. ASSUME logins'[d] = logins[d], attempts'[d] = attempts[d]
      PROVE  Covers(d)' /\ Within(d)'
  BY <1>0, <1>1 DEF Covers, Within
<1>2. CASE UNCHANGED <<logins, attempts>>
  BY <1>1, <1>2
<1>3. ASSUME NEW c \in Clients, NEW r, Login(c, r) PROVE Covers(d)' /\ Within(d)'
  <2>1. CASE c = d
    BY <1>0, <1>3, <2>1, LoginCounts
  <2>2. CASE c # d
    <3>1. logins'[d] = logins[d]
      BY <1>3, <2>2 DEF Login, TypeOK
    <3>2. \/ attempts' = [attempts EXCEPT ![c] = Attempted(c)]
          \/ Failed(c)
          \/ Passed(c)
      BY <1>3 DEF Login, Malformed, Succeed, Reject
    <3>3. attempts'[d] = attempts[d]
      BY <2>2, <3>2 DEF Failed, Passed, TypeOK
    <3> QED BY <1>1, <3>1, <3>3
  <2> QED BY <2>1, <2>2
<1>4. ASSUME NEW c \in Clients, FinishLogin(c) PROVE Covers(d)' /\ Within(d)'
  <2>1. CASE c = d
    BY <1>0, <1>4, <2>1, FinishCounts
  <2>2. CASE c # d
    <3>1. logins'[d] = logins[d] /\ attempts'[d] = attempts[d]
      BY <1>4, <2>2 DEF FinishLogin, TypeOK
    <3> QED BY <1>1, <3>1
  <2> QED BY <2>1, <2>2
<1>5. CASE Restart
  BY <1>5, LimitAssumption DEF Restart, Covers, Within, Unused, NoAttempts
<1>6. CASE UNCHANGED authVars
  BY <1>2, <1>6 DEF authVars, limits
<1> QED
  <2>1. ASSUME NEW c \in Clients, NEW r, Register(c, r)
        PROVE  UNCHANGED <<logins, attempts>>
    BY <2>1 DEF Register
  <2>2. ASSUME NEW c \in Clients, NEW r, NEW t,
               Refuse(c, r) \/ ProcessPacket(c, r) \/ WithToken(c, t, r)
        PROVE  UNCHANGED <<logins, attempts>>
    BY <2>2, CountedOnly DEF OnlyCounted
  <2>3. ASSUME NEW u \in Users, NEW role \in {"user", "admin"}, SetRole(u, role)
        PROVE  UNCHANGED <<logins, attempts>>
    BY <2>3 DEF SetRole, limits
  <2>4. ASSUME Tick PROVE UNCHANGED <<logins, attempts>>
    BY <2>4 DEF Tick, limits
  <2> QED BY <1>2, <1>3, <1>4, <1>5, <1>6, <2>1, <2>2, <2>3, <2>4 DEF Next, Request

(* No client fails more than MaxLogin logins in a window, but for the late *)
(* corrections, however many clients and users there are and however long  *)
(* the window is.                                                          *)
THEOREM LoginsAreLimited == Spec => []FailedLoginsLimited
<1>1. LoginInv => FailedLoginsLimited
  BY DEF LoginInv, Within, FailedLoginsLimited
<1> QED BY <1>1, InitTypeOK, StepTypeOK, InitLoginInv, StepLoginInv, PTL DEF Spec

-----------------------------------------------------------------------------
(* The role in a token.                                                    *)

(* lastAdmin is kept up while the row says admin, and a token that says so *)
(* was made while it did.                                                  *)
RowCurrent(u) == lastAdmin[u] <= now /\ (accounts[u] = "admin" => lastAdmin[u] = now)

TokenCovered(t) == t.role = "admin" => t.exp <= lastAdmin[t.user] + TokenLife

RoleInv ==
    /\ \A u \in Users : RowCurrent(u)
    /\ \A t \in tokens : TokenCovered(t)

LEMMA InitRoleInv == Init => RoleInv
BY LifeAssumption DEF Init, RoleInv, RowCurrent, NeverAdmin

LEMMA StepRoleInv == TypeOK /\ RoleInv /\ [Next]_authVars => RoleInv'
<1> SUFFICES ASSUME TypeOK, RoleInv, [Next]_authVars PROVE RoleInv'
  OBVIOUS
<1>0. now \in Nat /\ TokenLife \in Nat
  BY LifeAssumption, BoundAssumption DEF TypeOK
<1>1. ASSUME UNCHANGED <<now, accounts, tokens, lastAdmin>> PROVE RoleInv'
  BY <1>1 DEF RoleInv, RowCurrent, TokenCovered
<1>2. ASSUME NEW c \in Clients, NEW r, Register(c, r) PROVE RoleInv'
  <2>1. UNCHANGED <<now, tokens, lastAdmin>>
    BY <1>2 DEF Register
  <2>2. \A u \in Users : accounts'[u] = "admin" => accounts[u] = "admin"
    BY <1>2 DEF Register, Insert, tables, TypeOK
  <2> QED BY <2>1, <2>2 DEF RoleInv, RowCurrent, TokenCovered
<1>3. ASSUME NEW c \in Clients, NEW r, Login(c, r) PROVE RoleInv'
  <2>1. UNCHANGED <<now, accounts, lastAdmin>>
    BY <1>3 DEF Login, Malformed
  <2>2. \/ tokens' = tokens
        \/ \E u \in Users : tokens' = tokens \cup {NewToken(u)}
    BY <1>3 DEF Login, Malformed, Succeed, Reject
  <2>3. ASSUME NEW u \in Users PROVE TokenCovered(NewToken(u))
    BY <1>0 DEF NewToken, TokenCovered, RoleInv, RowCurrent
  <2>4. \A t \in tokens' : TokenCovered(t)
    BY <2>2, <2>3 DEF RoleInv
  <2> QED BY <2>1, <2>4 DEF RoleInv, RowCurrent, TokenCovered
<1>4. ASSUME NEW u \in Users, NEW role \in {"user", "admin"}, SetRole(u, role) PROVE RoleInv'
  <2>1. /\ UNCHANGED <<now, tokens>>
        /\ \A v \in Users : lastAdmin'[v] = lastAdmin[v] \/ lastAdmin'[v] = now
        /\ \A v \in Users : accounts'[v] = "admin" =>
              lastAdmin'[v] = now \/ (accounts[v] = "admin" /\ lastAdmin'[v] = lastAdmin[v])
    BY <1>4 DEF SetRole, limits, TypeOK
  <2>2. \A v \in Users : lastAdmin[v] \in Int /\ lastAdmin[v] <= lastAdmin'[v]
    BY <1>0, <2>1 DEF RoleInv, RowCurrent, TypeOK
  <2>3. \A v \in Users : RowCurrent(v)'
    BY <1>0, <2>1 DEF RoleInv, RowCurrent
  <2>4. \A t \in tokens : TokenCovered(t)'
    <3> TAKE t \in tokens
    <3>1. t.user \in Users /\ t.exp \in Nat
      BY DEF TypeOK, Token
    <3>2. lastAdmin'[t.user] \in Int
      BY <1>0, <2>1, <3>1 DEF TypeOK
    <3> QED BY <1>0, <2>2, <3>1, <3>2 DEF RoleInv, TokenCovered
  <2> QED BY <2>1, <2>3, <2>4 DEF RoleInv
<1>5. CASE Tick
  <2>1. /\ now' = now + 1
        /\ UNCHANGED <<accounts, tokens>>
        /\ \A v \in Users : lastAdmin'[v] = IF accounts[v] = "admin" THEN now + 1 ELSE lastAdmin[v]
    BY <1>5 DEF Tick, tables
  <2>2. \A v \in Users : /\ lastAdmin[v] \in Int
                         /\ lastAdmin'[v] \in Int
                         /\ lastAdmin[v] <= lastAdmin'[v]
    BY <1>0, <2>1 DEF RoleInv, RowCurrent, TypeOK
  <2>3. \A v \in Users : RowCurrent(v)'
    BY <1>0, <2>1, <2>2 DEF RoleInv, RowCurrent
  <2>4. \A t \in tokens : TokenCovered(t)'
    <3> TAKE t \in tokens
    <3>1. t.user \in Users /\ t.exp \in Nat
      BY DEF TypeOK, Token
    <3> QED BY <1>0, <2>2, <3>1 DEF RoleInv, TokenCovered
  <2> QED BY <2>1, <2>3, <2>4 DEF RoleInv
<1> QED
  <2>1. ASSUME NEW c \in Clients, NEW r, NEW t,
               Refuse(c, r) \/ ProcessPacket(c, r) \/ WithToken(c, t, r)
        PROVE  RoleInv'
    BY <1>1, <2>1, CountedOnly DEF OnlyCounted, tables
  <2>2. ASSUME NEW c \in Clients, FinishLogin(c) PROVE RoleInv'
    BY <1>1, <2>2 DEF FinishLogin, tables
  <2>3. CASE Restart \/ UNCHANGED authVars
    BY <1>1, <2>3 DEF Restart, authVars, tables
  <2> QED BY <1>2, <1>3, <1>4, <1>5, <2>1, <2>2, <2>3 DEF Next, Request

(* Nobody reads the audit log who was not an admin less than a token's     *)
(* life ago, whatever roles are given and taken away in the meantime.      *)
THEOREM AdminsWereAdmins == Spec => []AdminWasAdmin
<1>1. TypeOK /\ RoleInv => AdminWasAdmin
  <2> SUFFICES ASSUME TypeOK, RoleInv, NEW t \in tokens, MayAdminister(t)
               PROVE  now < lastAdmin[t.user] + TokenLife
    BY DEF AdminWasAdmin
  <2>1. /\ now \in Nat /\ TokenLife \in Nat
        /\ t.exp \in Nat /\ lastAdmin[t.user] \in Int
    BY LifeAssumption, BoundAssumption DEF TypeOK, Token
  <2> QED BY <2>1 DEF RoleInv, TokenCovered, MayAdminister, Verified
<1> QED BY <1>1, InitTypeOK, StepTypeOK, InitRoleInv, StepRoleInv, PTL DEF Spec

-----------------------------------------------------------------------------
(* The tables and the answers.                                             *)

LEMMA InitRecords == Init => RecordsAreTrue
BY DEF Init, RecordsAreTrue

LEMMA StepRecords == TypeOK /\ RecordsAreTrue /\ [Next]_authVars => RecordsAreTrue'
<1> SUFFICES ASSUME TypeOK, RecordsAreTrue, [Next]_authVars PROVE RecordsAreTrue'
  OBVIOUS
<1>1. ASSUME UNCHANGED <<accounts, audit, tokens, created>> PROVE RecordsAreTrue'
  BY <1>1 DEF RecordsAreTrue
<1>2. ASSUME NEW c \in Clients, NEW r, Register(c, r) PROVE RecordsAreTrue'
  <2>0. tokens' = tokens
    BY <1>2 DEF Register
  <2>1. CASE UNCHANGED <<tables, created>>
    BY <1>1, <2>0, <2>1 DEF tables
  <2>2. ASSUME NEW u \in Users, Insert(u, r) PROVE RecordsAreTrue'
    <3>1. CASE UNCHANGED <<tables, created>>
      BY <1>1, <2>0, <3>1 DEF tables
    <3>2. CASE accounts' = [accounts EXCEPT ![u] = "user"]
      <4>1. \/ audit' = audit \cup {<<"USER_REGISTERED", u>>} /\ created' = created \cup {u}
            \/ UNCHANGED <<audit, created>>
            \/ UNCHANGED <<tables, created>>
        BY <2>2 DEF Insert, Created, Log
      <4>2. \A v \in Users : accounts[v] # "absent" => accounts'[v] # "absent"
        BY <3>2 DEF TypeOK
      <4>3. accounts'[u] # "absent"
        BY <3>2 DEF TypeOK
      <4>4. \A e \in audit : e[2] \in Users /\ accounts[e[2]] # "absent"
        BY DEF TypeOK, RecordsAreTrue
      <4>5. \A e \in audit' : accounts'[e[2]] # "absent"
        BY <4>1, <4>2, <4>3, <4>4 DEF tables
      <4>6. audit \subseteq audit'
        BY <4>1 DEF tables
      <4>7. \A v \in created' : <<"USER_REGISTERED", v>> \in audit'
        BY <4>1, <4>6 DEF RecordsAreTrue, tables
      <4>8. \A t \in tokens' : <<"USER_LOGIN", t.user>> \in audit'
        BY <2>0, <4>6 DEF RecordsAreTrue
      <4> QED BY <4>5, <4>7, <4>8 DEF RecordsAreTrue
    <3> QED BY <2>2, <3>1, <3>2 DEF Insert
  <2> QED BY <1>2, <2>1, <2>2 DEF Register
<1>3. ASSUME NEW c \in Clients, NEW r, Login(c, r) PROVE RecordsAreTrue'
  <2>0. accounts' = accounts /\ created' = created
    BY <1>3 DEF Login, Malformed
  <2>1. CASE UNCHANGED <<audit, tokens>>
    BY <1>1, <2>0, <2>1
  <2>2. ASSUME NEW u \in Users, Succeed(c, u, r) PROVE RecordsAreTrue'
    <3>1. \/ UNCHANGED <<audit, tokens>>
          \/ /\ audit' = audit \cup {<<"USER_LOGIN", u>>}
             /\ tokens' = tokens \cup {NewToken(u)}
             /\ accounts[u] # "absent"
      BY <2>2 DEF Succeed, Log
    <3>2. NewToken(u).user = u
      BY DEF NewToken
    <3>3. \A e \in audit' : accounts[e[2]] # "absent"
      BY <3>1 DEF RecordsAreTrue
    <3>4. \A t \in tokens' : <<"USER_LOGIN", t.user>> \in audit'
      BY <3>1, <3>2 DEF RecordsAreTrue
    <3>5. \A v \in created : <<"USER_REGISTERED", v>> \in audit'
      BY <3>1 DEF RecordsAreTrue
    <3> QED BY <2>0, <3>3, <3>4, <3>5 DEF RecordsAreTrue
  <2>3. ASSUME NEW u \in Users, Reject(c, u, r) PROVE RecordsAreTrue'
    <3>1. /\ tokens' = tokens
          /\ \/ audit' = audit
             \/ audit' = audit \cup {<<"LOGIN_FAILED", u>>} /\ accounts[u] # "absent"
      BY <2>3 DEF Reject, Log
    <3> QED BY <2>0, <3>1 DEF RecordsAreTrue
  <2> QED BY <1>3, <2>1, <2>2, <2>3 DEF Login, Malformed
<1>4. ASSUME NEW u \in Users, NEW role \in {"user", "admin"}, SetRole(u, role)
      PROVE  RecordsAreTrue'
  <2>1. UNCHANGED <<audit, tokens, created>>
    BY <1>4 DEF SetRole
  <2>2. \A v \in Users : accounts[v] # "absent" => accounts'[v] # "absent"
    BY <1>4 DEF SetRole, TypeOK
  <2>3. \A e \in audit : e[2] \in Users
    BY DEF TypeOK
  <2> QED BY <2>1, <2>2, <2>3 DEF RecordsAreTrue
<1> QED
  <2>1. ASSUME NEW c \in Clients, NEW r, NEW t,
               Refuse(c, r) \/ ProcessPacket(c, r) \/ WithToken(c, t, r)
        PROVE  RecordsAreTrue'
    BY <1>1, <2>1, CountedOnly DEF OnlyCounted, tables
  <2>2. ASSUME NEW c \in Clients, FinishLogin(c) PROVE RecordsAreTrue'
    BY <1>1, <2>2 DEF FinishLogin, tables
  <2>3. CASE Restart \/ Tick \/ UNCHANGED authVars
    BY <1>1, <2>3 DEF Restart, Tick, authVars, tables
  <2> QED BY <1>2, <1>3, <1>4, <2>1, <2>2, <2>3 DEF Next, Request

(* Whatever throws: no audit entry without a row, no session and no        *)
(* confirmed account without its entry.                                    *)
THEOREM RecordsStayTrue == Spec => []RecordsAreTrue
BY InitTypeOK, StepTypeOK, InitRecords, StepRecords, PTL DEF Spec
-----------------------------------------------------------------------------
(* The browser.                                                            *)

(* To the backend a token it did not make is as good as none. *)
LEMMA ForeignToken ==
    ASSUME TypeOK, NEW c, NEW t, NEW r, WithToken(c, t, r)
    PROVE  \E u \in tokens \cup {NoToken} : WithToken(c, u, r)
<1>1. CASE t \in tokens
  BY <1>1
<1>2. CASE t \notin tokens
  <2>1. NoToken \notin tokens
    BY DEF TypeOK, Token, NoToken
  <2>2. ~Verified(t) /\ ~Verified(NoToken)
    BY <1>2, <2>1 DEF Verified
  <2>3. ASSUME NEW codes, ForUser(c, t, r, codes) PROVE ForUser(c, NoToken, r, codes)
    BY <2>2, <2>3 DEF ForUser
  <2>4. ASSUME NEW codes, ForAdmin(c, t, r, codes) PROVE ForAdmin(c, NoToken, r, codes)
    BY <2>2, <2>4 DEF ForAdmin, MayAdminister
  <2>5. WithToken(c, NoToken, r)
    BY <2>3, <2>4 DEF WithToken, SendMessage, GetMessageStatus, GetUserMessages,
                      GenerateCert, VerifyCert, RevokeCert, GetLogs
  <2> QED BY <2>5
<1> QED BY <1>1, <1>2

(* What a tab does is a request to the backend or none of its business. *)
LEMMA StepIsRequest ==
    ASSUME TypeOK, [WebNext]_allVars
    PROVE  [Next]_authVars
<1>1. ASSUME NEW t \in Tabs, Serve(t) PROVE Next
  <2>1. PICK c \in Clients, r \in Answers :
          \/ Refuse(c, r)
          \/ Login(c, r)
          \/ Register(c, r)
          \/ WithToken(c, call[t].token, r)
    BY <1>1 DEF Serve, WithToken
  <2>2. Request(c, r)
    BY <2>1, ForeignToken DEF Request
  <2> QED BY <2>2 DEF Next
<1>2. ASSUME NEW t \in Tabs, Browse(t), ~Serve(t) PROVE UNCHANGED authVars
  BY <1>2 DEF Browse, Load, Navigate, Logout, SubmitLogin, SubmitRegistration,
              FetchStats, FetchMessages, HandleSend, FetchLogs, Send,
              LoggedIn, Registered, Shown, Rejected, Done
<1>3. CASE Backend
  BY <1>3 DEF Backend, Next
<1>4. CASE UNCHANGED allVars
  BY <1>4 DEF allVars
<1> QED BY <1>1, <1>2, <1>3, <1>4 DEF WebNext

(* Browsers drive the backend only through its requests: with any number   *)
(* of tabs whose calls overlap, the composed system implements the         *)
(* specification of the backend.                                           *)
THEOREM WebImplementsAuth == WebSpec => Spec
<1>1. WebInit => Init
  BY DEF WebInit
<1>2. TypeOK /\ [Next]_authVars => TypeOK'
  BY StepTypeOK
<1>3. TypeOK /\ [WebNext]_allVars => [Next]_authVars
  BY StepIsRequest
<1> QED BY <1>1, <1>2, <1>3, InitTypeOK, PTL DEF WebSpec, Spec

(* So what is proved of the backend holds when browsers use it: failed     *)
(* logins stay limited, roles outlive a token's life nowhere, and the      *)
(* tables agree with the answers (rateLimiter.js, authMiddleware.js,       *)
(* authService.js).                                                        *)
THEOREM WebKeepsGuarantees ==
    WebSpec => [](TypeOK /\ FailedLoginsLimited /\ AdminWasAdmin /\ RecordsAreTrue)
BY WebImplementsAuth, TypeCorrect, LoginsAreLimited, AdminsWereAdmins, RecordsStayTrue, PTL

(* What a browser knows: a token is none or the text undefined, neither    *)
(* has a user in it, and the page shown is one that needs none.            *)
NoJWT     == {NoToken, Undefined}
Strangers == [token : NoJWT, user : {NoToken}]

WebInv ==
    /\ stored \in NoJWT
    /\ session \in [Tabs -> Strangers]
    /\ page \in [Tabs -> Public]

(* The body of an answer has no token at its top, so the context takes in  *)
(* the text undefined, which does not decode.                              *)
LEMMA NothingUnwrapped ==
    /\ \A r : NewTokenOf(r) = Undefined
    /\ \A token \in NoJWT : Decode(token) = NoToken /\ With(token) \in Strangers
    /\ NoSession \in Strangers
<1>1. ASSUME NEW r PROVE NewTokenOf(r) = Undefined
  <2>1. DOMAIN Body(r) = {"success", "data"}
    BY DEF Body
  <2>2. "token" \notin DOMAIN Body(r)
    BY <2>1
  <2> QED BY <2>2 DEF NewTokenOf, Property
<1>2. ASSUME NEW token \in NoJWT PROVE Decode(token) = NoToken
  BY DEF NoJWT, Decode
<1> QED BY <1>1, <1>2 DEF With, Strangers, NoSession, NoJWT

(* ProtectedRoute sends a stranger to the login page. *)
LEMMA StrangerRouted ==
    ASSUME NEW s \in Strangers, NEW p \in Pages
    PROVE  Routed(s, p) \in Public
BY DEF Strangers, Routed, Pages, Public, Protected

LEMMA InitWebInv == WebInit => WebInv
BY NothingUnwrapped DEF WebInit, WebInv, NoJWT, Public

LEMMA StepWebInv == TypeOK /\ WebInv /\ [WebNext]_allVars => WebInv'
<1> SUFFICES ASSUME TypeOK, WebInv, [WebNext]_allVars PROVE WebInv'
  OBVIOUS
<1>0. now \in Nat
  BY BoundAssumption DEF TypeOK
<1>g. ASSUME NEW t \in Tabs, NEW p \in Pages, session' \in [Tabs -> Strangers], Goto(t, p)
      PROVE  page' \in [Tabs -> Public]
  <2>1. Routed(session'[t], p) \in Public
    BY <1>g, StrangerRouted
  <2> QED BY <1>g, <2>1 DEF Goto, WebInv
<1>p. "login" \in Public /\ "login" \in Pages /\ "dashboard" \in Pages
  BY DEF Public, Protected, Pages
<1>1. ASSUME NEW t \in Tabs, NEW p \in Pages, Load(t, p) PROVE WebInv'
  <2>1. ~(Decode(stored).exp > now)
    <3>1. Decode(stored) = NoToken
      BY NothingUnwrapped DEF WebInv
    <3> QED BY <1>0, <3>1 DEF NoToken
  <2>2. /\ session' = [session EXCEPT ![t] = NoSession]
        /\ stored' = NoToken
        /\ Goto(t, p)
    BY <1>1, <2>1 DEF Load
  <2>3. session' \in [Tabs -> Strangers]
    BY <2>2, NothingUnwrapped DEF WebInv
  <2> QED BY <1>g, <2>2, <2>3 DEF WebInv, NoJWT
<1>2. ASSUME NEW t \in Tabs, NEW p \in Pages, Navigate(t, p) PROVE WebInv'
  <2>1. UNCHANGED <<stored, session>> /\ Goto(t, p)
    BY <1>2 DEF Navigate
  <2> QED BY <1>g, <2>1 DEF WebInv
<1>3. ASSUME NEW t \in Tabs, Logout(t) PROVE WebInv'
  <2>1. session' \in [Tabs -> Strangers]
    BY <1>3, NothingUnwrapped DEF Logout, WebInv
  <2>2. page' \in [Tabs -> Public]
    BY <1>3, <1>g, <1>p, <2>1 DEF Logout
  <2> QED BY <1>3, <2>1, <2>2 DEF Logout, WebInv, NoJWT
<1>4. ASSUME NEW t \in Tabs, LoggedIn(t) PROVE WebInv'
  <2>1. stored' = Undefined /\ session' = [session EXCEPT ![t] = With(Undefined)]
    BY <1>4, NothingUnwrapped DEF LoggedIn
  <2>2. session' \in [Tabs -> Strangers]
    BY <2>1, NothingUnwrapped DEF WebInv, NoJWT
  <2>3. page' \in [Tabs -> Public]
    BY <1>4, <1>g, <1>p, <2>2 DEF LoggedIn
  <2> QED BY <2>1, <2>2, <2>3 DEF WebInv, NoJWT
<1>5. ASSUME NEW t \in Tabs, Registered(t) PROVE WebInv'
  <2>1. UNCHANGED <<stored, session>>
    BY <1>5, NothingUnwrapped DEF Registered
  <2>2. page' \in [Tabs -> Public]
    BY <1>5, <1>g, <1>p, <2>1 DEF Registered, WebInv
  <2> QED BY <2>1, <2>2 DEF WebInv
<1>6. ASSUME NEW t \in Tabs, Rejected(t) PROVE WebInv'
  <2>1. \/ UNCHANGED <<stored, session, page>>
        \/ stored' = NoToken /\ UNCHANGED <<session, page>>
        \/ /\ stored' = NoToken
           /\ session' = [session EXCEPT ![t] = NoSession]
           /\ page' = [page EXCEPT ![t] = "login"]
    BY <1>6 DEF Rejected
  <2> QED BY <1>p, <2>1, NothingUnwrapped DEF WebInv, NoJWT
<1>7. CASE UNCHANGED <<stored, session, page>>
  BY <1>7 DEF WebInv
<1> QED
  <2>1. ASSUME NEW t \in Tabs,
               \/ SubmitLogin(t) \/ SubmitRegistration(t) \/ FetchStats(t)
               \/ FetchMessages(t) \/ HandleSend(t) \/ FetchLogs(t)
               \/ Serve(t) \/ Shown(t)
        PROVE  UNCHANGED <<stored, session, page>>
    BY <2>1 DEF SubmitLogin, SubmitRegistration, FetchStats, FetchMessages,
                HandleSend, FetchLogs, Send, Serve, Shown
  <2>2. Backend \/ UNCHANGED allVars => UNCHANGED <<stored, session, page>>
    BY DEF Backend, allVars, webVars
  <2> QED BY <1>1, <1>2, <1>3, <1>4, <1>5, <1>6, <1>7, <2>1, <2>2 DEF WebNext, Browse

(* However many tabs, users and requests there are and however they        *)
(* overlap, no tab gets a session: the token of a login is lost on its way *)
(* into AuthContext (LoginKeepsToken), and nothing else brings one in.     *)
THEOREM WebNobodyGetsIn == WebSpec => []NobodyGetsIn
<1>1. WebInv => NobodyGetsIn
  BY DEF WebInv, NobodyGetsIn, NoJWT, Strangers, IsAuthenticated
<1>2. WebSpec => []TypeOK
  BY WebImplementsAuth, TypeCorrect, PTL
<1> QED BY <1>1, <1>2, InitWebInv, StepWebInv, PTL DEF WebSpec
=============================================================================
