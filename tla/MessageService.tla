--------------------------- MODULE MessageService --------------------------
(***************************************************************************)
(* Sending a message (backend/services/messageService.js): insert a        *)
(* pending row, build the onion packet, keep its text, run it through the  *)
(* relay, write the outcome, log it; on any exception write "failed"       *)
(* instead.  The statements commit one by one and each can throw, the      *)
(* catch block's own statements included, and the process can die between  *)
(* any two.  The relay is module RelayEngine; a request that sends a       *)
(* message and one that presents a packet to POST /api/relay/process never *)
(* overlap, since both are synchronous.                                    *)
(***************************************************************************)
EXTENDS RelayEngine

CONSTANTS
    Msgs,       \* the ids of the messages table
    ClientNonces, \* bound: the nonces clients make up for packets of their own
    Crashes     \* TRUE when the process may die and be started again

ASSUME ClientAssumption == ClientNonces \subseteq Nonces
ASSUME CrashesAssumption == Crashes \in BOOLEAN

VARIABLES
    messages,   \* the messages table, by id
    mpc,        \* where sendMessage stands
    sending,    \* the message it is sending
    onion,      \* its onionPacket
    drawn,      \* the nonces encryptionService has drawn
    outcome,    \* history: what the relay returned for a message
    told        \* history: the last status a client was given for a message

msgVars == <<messages, mpc, sending, onion, drawn, outcome, told>>
allVars == <<relayVars, msgVars>>

Statuses  == {"pending", "delivered", "failed", "signature-invalid"}
Final     == Statuses \ {"pending"}
SendSteps == {"idle", "create", "payload", "relay", "log", "fail", "logFail"}

NoMessage == "none"

(* payload: has the packet's text been kept; content: decrypted_content.   *)
Message == [owner : Senders, status : Statuses, payload : BOOLEAN, content : BOOLEAN]
NoRow   == [status |-> "absent"]

MessageInit ==
    /\ RelayInit
    /\ messages = [m \in Msgs |-> NoRow]
    /\ mpc = "idle"
    /\ sending = NoMessage
    /\ onion = NoPacket
    /\ drawn = {}
    /\ outcome = [m \in Msgs |-> "none"]
    /\ told = [m \in Msgs |-> "none"]

Exists(m) == messages[m] # NoRow
InTable   == {m \in Msgs : Exists(m)}
Idle      == rpc = "idle" /\ mpc = "idle"

-----------------------------------------------------------------------------
(* sendMessage.                                                            *)

SetStatus(s) == messages' = [messages EXCEPT ![sending].status = s]

(* Leave sendMessage: with an answer to the client, which is 200 whatever   *)
(* the status, or with an exception (500).                                 *)
Answer(s)  == told' = [told EXCEPT ![sending] = s]
HandlerEnd == mpc' = "idle" /\ sending' = NoMessage /\ onion' = NoPacket

(* The user row was found; the pending row is inserted (or the INSERT      *)
(* throws, outside the try block, and nothing happened).                   *)
BeginSend ==
    /\ Idle
    /\ \E m \in Msgs \ InTable, u \in Senders :
          /\ messages' = [messages EXCEPT ![m] =
                [owner |-> u, status |-> "pending", payload |-> FALSE, content |-> FALSE]]
          /\ sending' = m
    /\ mpc' = "create"
    /\ UNCHANGED <<relayVars, onion, drawn, outcome, told>>

(* 16 random bytes: never drawn before, and nobody's own choice. *)
FreshNonce(n) == n \notin drawn \cup ClientNonces

(* createOnionPacket: every node certificate verified, a fresh nonce, the  *)
(* server's own stamp, an audit entry.                                     *)
CreateOnionPacket ==
    /\ mpc = "create"
    /\ \/ /\ Nodes \subseteq trust
          /\ \E n \in Nonces :
                /\ FreshNonce(n)
                /\ drawn' = drawn \cup {n}
                /\ onion' = [nonce |-> n, stamp |-> now, kind |-> "good",
                             sender |-> messages[sending].owner]
          /\ mpc' = "payload"
       \/ /\ ~(Nodes \subseteq trust) \/ DbFaults
          /\ mpc' = "fail"
          /\ UNCHANGED <<onion, drawn>>
    /\ UNCHANGED <<relayVars, messages, sending, outcome, told>>

(* Mutant of StorePayload: a packet of the backend's own making is handed  *)
(* to the relay behind its replay check.                                   *)
StorePayloadPastNonce ==
    /\ mpc = "payload"
    /\ messages' = [messages EXCEPT ![sending].payload = TRUE]
    /\ mpc' = "relay"
    /\ rpc' = "timestamp" /\ cur' = onion /\ result' = "none"
    /\ UNCHANGED <<now, trust, nonces, accepted>>
    /\ UNCHANGED <<sending, onion, drawn, outcome, told>>

(* Mutant of StorePayload: the row is marked delivered with its payload,   *)
(* to be corrected when the relay should fail.                             *)
StorePayloadAsDelivered ==
    /\ mpc = "payload"
    /\ messages' = [messages EXCEPT ![sending].payload = TRUE,
                                    ![sending].status = "delivered"]
    /\ mpc' = "relay"
    /\ Start(onion)
    /\ UNCHANGED <<now, trust, nonces, accepted>>
    /\ UNCHANGED <<sending, onion, drawn, outcome, told>>

(* Keep the packet's text, then call processPacket. *)
StorePayload ==
    /\ mpc = "payload"
    /\ \/ /\ messages' = [messages EXCEPT ![sending].payload = TRUE]
          /\ mpc' = "relay"
          /\ Start(onion)
       \/ /\ DbFaults
          /\ mpc' = "fail"
          /\ UNCHANGED <<messages, rpc, cur, result>>
    /\ UNCHANGED <<now, trust, nonces, accepted>>
    /\ UNCHANGED <<sending, onion, drawn, outcome, told>>

(* Mutant of UpdateStatus: the relay's result is written as it is, also    *)
(* when it is an exception.                                                *)
UpdateStatusAsIs ==
    /\ mpc = "relay"
    /\ rpc = "done"
    /\ outcome' = [outcome EXCEPT ![sending] = result]
    /\ SetStatus(result)
    /\ mpc' = "log"
    /\ RelayIdle
    /\ UNCHANGED <<now, trust, nonces, accepted>>
    /\ UNCHANGED <<sending, onion, drawn, told>>

(* Mutant of UpdateStatus: the client is answered before the row is        *)
(* written.                                                                *)
UpdateStatusAnswersFirst ==
    /\ mpc = "relay"
    /\ rpc = "done"
    /\ outcome' = [outcome EXCEPT ![sending] = result]
    /\ \/ result # "error" /\ Answer(result) /\ SetStatus(result) /\ mpc' = "log"
       \/ result # "error" /\ Answer(result) /\ UNCHANGED messages /\ mpc' = "fail"
       \/ result = "error" /\ UNCHANGED <<messages, told>> /\ mpc' = "fail"
    /\ RelayIdle
    /\ UNCHANGED <<now, trust, nonces, accepted>>
    /\ UNCHANGED <<sending, onion, drawn>>

(* Mutant of UpdateStatus: nothing catches what processPacket throws. *)
UpdateStatusUncaught ==
    /\ mpc = "relay"
    /\ rpc = "done"
    /\ outcome' = [outcome EXCEPT ![sending] = result]
    /\ \/ /\ result # "error"
          /\ SetStatus(result)
          /\ mpc' = "log"
          /\ UNCHANGED <<sending, onion>>
       \/ result = "error" /\ HandlerEnd /\ UNCHANGED messages
    /\ RelayIdle
    /\ UNCHANGED <<now, trust, nonces, accepted, drawn, told>>

(* processPacket came back: write its status, or go to the catch block. *)
UpdateStatus ==
    /\ mpc = "relay"
    /\ rpc = "done"
    /\ outcome' = [outcome EXCEPT ![sending] = result]
    /\ \/ /\ result = "delivered"
          /\ messages' = [messages EXCEPT ![sending].status = result,
                                          ![sending].content = TRUE]
          /\ mpc' = "log"
       \/ /\ result = "signature-invalid"
          /\ SetStatus(result)
          /\ mpc' = "log"
       \/ /\ result = "error" \/ DbFaults
          /\ mpc' = "fail"
          /\ UNCHANGED messages
    /\ RelayIdle
    /\ UNCHANGED <<now, trust, nonces, accepted>>
    /\ UNCHANGED <<sending, onion, drawn, told>>

(* Mutant of LogSent: the return is missing and the catch block runs. *)
LogSentFallsThrough ==
    /\ mpc = "log"
    /\ mpc' = "fail"
    /\ UNCHANGED <<relayVars, messages, sending, onion, drawn, outcome, told>>

(* MESSAGE_SENT is logged inside the try block. *)
LogSent ==
    /\ mpc = "log"
    /\ \/ Answer(messages[sending].status) /\ HandlerEnd
       \/ DbFaults /\ mpc' = "fail" /\ UNCHANGED <<sending, onion, told>>
    /\ UNCHANGED <<relayVars, messages, drawn, outcome>>

(* Mutant of MarkFailed: the catch block logs and does not write. *)
MarkFailedLogsOnly ==
    /\ mpc = "fail"
    /\ mpc' = "logFail"
    /\ UNCHANGED <<relayVars, messages, sending, onion, drawn, outcome, told>>

(* The catch block; a second exception leaves the handler (HTTP 500). *)
MarkFailed ==
    /\ mpc = "fail"
    /\ \/ /\ SetStatus("failed")
          /\ mpc' = "logFail"
          /\ UNCHANGED <<sending, onion>>
       \/ DbFaults /\ HandlerEnd /\ UNCHANGED messages
    /\ UNCHANGED <<relayVars, drawn, outcome, told>>

LogFailed ==
    /\ mpc = "logFail"
    /\ \/ Answer("failed")
       \/ DbFaults /\ UNCHANGED told
    /\ HandlerEnd
    /\ UNCHANGED <<relayVars, messages, drawn, outcome>>

SendMessage ==
    \/ BeginSend
    \/ CreateOnionPacket
    \/ StorePayload
    \/ UpdateStatus
    \/ LogSent
    \/ MarkFailed
    \/ LogFailed

-----------------------------------------------------------------------------
(* The other requests, and the process.                                    *)

(* The rows a user may see: somebody else's are refused (403), and an id   *)
(* without a row is not found (404).                                       *)
MayRead(m, u) == Exists(m) /\ messages[m].owner = u

(* What the client gets to know of the rows shown. *)
Tell(shown) ==
    told' = [m \in Msgs |-> IF m \in shown THEN messages[m].status ELSE told[m]]

(* GET /api/message/:id *)
GetMessageStatus ==
    /\ Idle
    /\ \E m \in Msgs, u \in Senders : MayRead(m, u) /\ Tell({m})
    /\ UNCHANGED <<relayVars, messages, mpc, sending, onion, drawn, outcome>>

(* GET /api/messages *)
GetUserMessages ==
    /\ Idle
    /\ \E u \in Senders : Tell({m \in Msgs : MayRead(m, u)})
    /\ UNCHANGED <<relayVars, messages, mpc, sending, onion, drawn, outcome>>

(* POST /api/relay/process, start and end: a nonce of the client's own, or   *)
(* one it has seen on a packet of the backend.                             *)
RelayRequest == Idle /\ Receive(ClientNonces \cup drawn) /\ UNCHANGED msgVars
RelayAnswer  == mpc = "idle" /\ Respond /\ UNCHANGED msgVars

RelayRuns == ProcessPacket /\ UNCHANGED msgVars

Environment ==
    /\ \/ Tick
       \/ CertificateExpires
       \/ mpc = "idle" /\ CertificatesChange
    /\ UNCHANGED msgVars

(* The process dies in the middle of whatever it does and comes back: the  *)
(* tables survive, the handler and its local variables do not.             *)
Crash ==
    /\ Crashes
    /\ CrashAndRestart
    /\ HandlerEnd
    /\ UNCHANGED <<messages, drawn, outcome, told>>

MessageNext ==
    \/ SendMessage
    \/ GetMessageStatus
    \/ GetUserMessages
    \/ RelayRequest
    \/ RelayAnswer
    \/ RelayRuns
    \/ Environment
    \/ Crash

MessageSpec == MessageInit /\ [][MessageNext]_allVars

(* The event loop runs a synchronous handler to its end. *)
FairMessageSpec == MessageSpec /\ WF_allVars(SendMessage \/ RelayRuns)

-----------------------------------------------------------------------------
(* Properties.                                                             *)

MessageTypeOK ==
    /\ messages \in [Msgs -> Message \cup {NoRow}]
    /\ mpc \in SendSteps
    /\ sending \in Msgs \cup {NoMessage}
    /\ mpc # "idle" => sending \in InTable
    /\ onion \in Packet \cup {NoPacket}
    /\ drawn \subseteq Nonces
    /\ outcome \in [Msgs -> Results]
    /\ told \in [Msgs -> Statuses \cup {"none"}]

(* A message that reads "delivered" went through the relay once and has    *)
(* its text: no crash and no failing statement makes up a delivery.        *)
DeliveredIsTrue ==
    \A m \in InTable :
        messages[m].status = "delivered" =>
            outcome[m] = "delivered" /\ messages[m].payload /\ messages[m].content

(* What a client has been told is final stays so: once the answer of       *)
(* sendMessage or of a status query was a final status, the row still has  *)
(* it whenever the next query can be served.                               *)
ToldIsFinal ==
    \A m \in Msgs :
        told[m] \in Final => Exists(m) /\ messages[m].status = told[m]

(* Between two requests no message is pending: the header of               *)
(* messageService.js promises delivered or marked failed.                  *)
NothingLeftPending ==
    Idle => \A m \in InTable : messages[m].status # "pending"

(* Between two requests a message the relay delivered reads "delivered"    *)
(* ("update the message status based on the relay result").                *)
StatusFollowsRelay ==
    Idle => \A m \in InTable :
        outcome[m] = "delivered" => messages[m].status = "delivered"

(* Every sendMessage that starts is answered with a final status, also     *)
(* when a certificate runs out in the middle of it.                        *)
SendIsAnswered ==
    \A m \in Msgs : (sending = m) ~> (told[m] \in Final)
=============================================================================
