----------------------------- MODULE WebClient -----------------------------
(***************************************************************************)
(* The session in the browser (frontend/src): the item darktunnel_token of *)
(* localStorage, which all tabs share, and in each tab the React state of  *)
(* AuthContext, the page shown and the HTTP call under way.  The backend   *)
(* is module AuthService; a call is sent, served and received in three     *)
(* steps, so calls of several tabs overlap.                                *)
(***************************************************************************)
EXTENDS AuthService

CONSTANT
    Tabs        \* browser tabs

VARIABLES
    stored,     \* localStorage.darktunnel_token
    session,    \* AuthContext of each tab: its token and the user decoded from it
    page,       \* the page a tab shows
    call        \* the HTTP call a tab waits for

webVars == <<stored, session, page, call>>
allVars == <<authVars, webVars>>

(* What localStorage and the state hold when there is no token, and when   *)
(* the value undefined was put there, which localStorage keeps as a text.  *)
Undefined == [user |-> "undefined", role |-> "none", exp |-> 0]

Public    == {"landing", "login", "register"}
Protected == {"dashboard", "send", "tracking", "adminLogs"}
Pages     == Public \cup Protected

NoSession == [token |-> NoToken, user |-> NoToken]
NoCall    == [state |-> "none"]

WebInit ==
    /\ Init
    /\ stored = NoToken
    /\ session = [t \in Tabs |-> NoSession]
    /\ page = [t \in Tabs |-> "landing"]
    /\ call = [t \in Tabs |-> NoCall]

-----------------------------------------------------------------------------
(* AuthContext.                                                            *)

(* decodeToken: the payload of a JWT, and nothing of anything else. *)
Decode(token) == IF token = Undefined THEN NoToken ELSE token

With(token) == [token |-> token, user |-> Decode(token)]

IsAuthenticated(t) == session[t].token # NoToken /\ session[t].user # NoToken
IsAdmin(t) == session[t].user.role = "admin"

(* ProtectedRoute: where a tab with session s ends up that wants page p. *)
Routed(s, p) ==
    IF p \in Protected /\ (s.token = NoToken \/ s.user = NoToken) THEN "login"
    ELSE IF p = "adminLogs" /\ s.user.role # "admin" THEN "dashboard"
    ELSE p

Goto(t, p) == page' = [page EXCEPT ![t] = Routed(session'[t], p)]

(* A page is loaded from the server: the provider mounts and takes what it *)
(* finds in storage, or clears it when it does not decode or has expired.  *)
Load(t, p) ==
    /\ call[t] = NoCall
    /\ IF Decode(stored).exp > now
       THEN session' = [session EXCEPT ![t] = With(stored)] /\ UNCHANGED stored
       ELSE session' = [session EXCEPT ![t] = NoSession] /\ stored' = NoToken
    /\ Goto(t, p)
    /\ UNCHANGED <<authVars, call>>

(* A link inside the application. *)
Navigate(t, p) ==
    /\ UNCHANGED session
    /\ Goto(t, p)
    /\ UNCHANGED <<authVars, stored, call>>

(* The button of the Navbar, which is there for an authenticated user. *)
Logout(t) ==
    /\ IsAuthenticated(t)
    /\ stored' = NoToken
    /\ session' = [session EXCEPT ![t] = NoSession]
    /\ Goto(t, "login")
    /\ UNCHANGED <<authVars, call>>

-----------------------------------------------------------------------------
(* Calls.                                                                  *)

(* The request interceptor takes the token from storage. *)
Send(t, kind) ==
    /\ call[t] = NoCall
    /\ call' = [call EXCEPT ![t] = [state |-> "sent", kind |-> kind, token |-> stored]]
    /\ UNCHANGED <<authVars, stored, session, page>>

(* The pages.  What a form refuses is not sent; a page that shows data      *)
(* asks for it when it is mounted and when it is refreshed.                *)
SubmitLogin(t)        == page[t] = "login" /\ Send(t, "login")
SubmitRegistration(t) == page[t] = "register" /\ Send(t, "register")
FetchStats(t)         == page[t] = "dashboard" /\ Send(t, "messages")
FetchMessages(t)      == page[t] = "tracking" /\ Send(t, "messages")
HandleSend(t)         == page[t] = "send" /\ Send(t, "message")
FetchLogs(t)          == page[t] = "adminLogs" /\ IsAdmin(t) /\ Send(t, "logs")

(* The backend handles the call. *)
Serve(t) ==
    /\ call[t].state = "sent"
    /\ \E c \in Clients, r \in Answers :
          /\ \/ Refuse(c, r)
             \/ call[t].kind = "login" /\ Login(c, r)
             \/ call[t].kind = "register" /\ Register(c, r)
             \/ call[t].kind = "message" /\ SendMessage(c, call[t].token, r)
             \/ call[t].kind = "messages" /\ GetUserMessages(c, call[t].token, r)
             \/ call[t].kind = "logs" /\ GetLogs(c, call[t].token, r)
          /\ call' = [call EXCEPT ![t] = [state |-> "answered",
                                          kind |-> call[t].kind, answer |-> r]]
    /\ UNCHANGED <<stored, session, page>>

(* The body the controllers send: { success, data: { token } }.            *)
Body(r) == [success |-> r.code < 400, data |-> [token |-> r.token]]

(* Reading a property of an object that does not have it. *)
Property(o, field) == IF field \in DOMAIN o THEN o[field] ELSE Undefined

(* const { token: newToken } = response.data, axios's name for the body. *)
NewTokenOf(r) == Property(Body(r), "token")

Succeeded(t, kind) ==
    /\ call[t].state = "answered"
    /\ call[t].kind = kind
    /\ call[t].answer.code < 400

Done(t) == call' = [call EXCEPT ![t] = NoCall] /\ UNCHANGED authVars

(* A login that succeeded: keep the token, decode it, show the dashboard. *)
LoggedIn(t) ==
    /\ Succeeded(t, "login")
    /\ stored' = NewTokenOf(call[t].answer)
    /\ session' = [session EXCEPT ![t] = With(NewTokenOf(call[t].answer))]
    /\ Goto(t, "dashboard")
    /\ Done(t)

(* A registration that succeeded: a token is kept when there is one. *)
Registered(t) ==
    /\ Succeeded(t, "register")
    /\ LET new == NewTokenOf(call[t].answer)
       IN  IF new = Undefined
           THEN UNCHANGED <<stored, session>>
           ELSE stored' = new /\ session' = [session EXCEPT ![t] = With(new)]
    /\ Goto(t, "dashboard")
    /\ Done(t)

(* Any other answer of success is for the page to draw. *)
Shown(t) ==
    /\ \E kind \in {"message", "messages", "logs"} : Succeeded(t, kind)
    /\ Done(t)
    /\ UNCHANGED <<stored, session, page>>

(* The response interceptor: a 401 clears storage, and loads the login     *)
(* page unless it is the one shown; any other error only shows a text.     *)
Rejected(t) ==
    /\ call[t].state = "answered"
    /\ call[t].answer.code >= 400
    /\ IF call[t].answer.code = 401
       THEN /\ stored' = NoToken
            /\ IF page[t] = "login"
               THEN UNCHANGED <<session, page>>
               ELSE /\ session' = [session EXCEPT ![t] = NoSession]
                    /\ page' = [page EXCEPT ![t] = "login"]
       ELSE UNCHANGED <<stored, session, page>>
    /\ Done(t)

Browse(t) ==
    \/ \E p \in Pages : Load(t, p) \/ Navigate(t, p)
    \/ Logout(t)
    \/ SubmitLogin(t)
    \/ SubmitRegistration(t)
    \/ FetchStats(t)
    \/ FetchMessages(t)
    \/ HandleSend(t)
    \/ FetchLogs(t)
    \/ Serve(t)
    \/ LoggedIn(t)
    \/ Registered(t)
    \/ Shown(t)
    \/ Rejected(t)

(* What the backend does of its own. *)
Backend ==
    /\ \/ \E c \in Clients : FinishLogin(c)
       \/ \E u \in Users, role \in {"user", "admin"} : SetRole(u, role)
       \/ Restart
       \/ Tick
    /\ UNCHANGED webVars

WebNext == Backend \/ \E t \in Tabs : Browse(t)

WebSpec == WebInit /\ [][WebNext]_allVars

-----------------------------------------------------------------------------
(* Properties.                                                             *)

(* What follows from the layers of an answer that AuthContext unwraps (see *)
(* LoginKeepsToken): no tab ever has a session, so ProtectedRoute never    *)
(* lets one see a page behind it, whoever logs in and registers, and       *)
(* localStorage never holds a JWT.                                         *)
NobodyGetsIn ==
    /\ stored \in {NoToken, Undefined}
    /\ \A t \in Tabs : ~IsAuthenticated(t) /\ page[t] \in Public

(* When a tab takes in the answer of a login that succeeded, the JWT of    *)
(* the answer is what localStorage holds afterwards: LoginPage and         *)
(* AuthContext keep the session a login returns (requirements.md,          *)
(* "storing the returned JWT in local storage upon successful              *)
(* authentication").                                                       *)
LoginKeepsToken ==
    [][\A t \in Tabs :
          Succeeded(t, "login") /\ call'[t] = NoCall =>
              stored' = call[t].answer.token]_allVars
=============================================================================
