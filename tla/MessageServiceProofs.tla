------------------------ MODULE MessageServiceProofs -----------------------
(***************************************************************************)
(* Proofs about MessageService: a backend that sends messages is still the *)
(* relay of RelayEngine, so what is proved there holds here; and what the  *)
(* messages table and the clients' answers say is true, for every number   *)
(* of messages and whatever crashes and exceptions occur.                  *)
(***************************************************************************)
EXTENDS MessageService, RelayEngineProofs

(* How the two handlers' program counters fit together, and what is known  *)
(* of the message that is being sent.                                      *)
Sequencing ==
    /\ mpc \notin {"idle", "relay"} => rpc = "idle"
    /\ mpc = "payload" => onion \in PacketOf(Nonces, 0 .. now)
    /\ mpc \in {"create", "payload", "relay"} => messages[sending].status = "pending"
    /\ mpc = "relay" => messages[sending].payload
    /\ mpc = "logFail" => messages[sending].status = "failed"
    /\ mpc # "idle" => told[sending] = "none"

Untold == \A m \in Msgs \ InTable : told[m] = "none"

MessageInv ==
    /\ MessageTypeOK
    /\ Sequencing
    /\ Untold
    /\ DeliveredIsTrue
    /\ ToldIsFinal

(* The invariant holds at the start.                                       *)
LEMMA MessageInvInit == MessageInit => RelayTyped /\ MessageInv
<1>1. MessageInit => RelayTyped
    BY TypedInit DEF MessageInit
<1>2. MessageInit => MessageInv
    BY DEF MessageInit, RelayInit, MessageInv, MessageTypeOK, Sequencing, Untold,
       DeliveredIsTrue, ToldIsFinal, InTable, Exists, SendSteps, Results, Final, Statuses
<1> QED
    BY <1>1, <1>2

(* Every step of the message service is a step of the relay, or leaves the *)
(* relay's variables alone.                                                *)
LEMMA MessageStepIsRelayStep ==
    ASSUME RelayTyped, MessageInv, [MessageNext]_allVars
    PROVE  [RelayNext]_relayVars
<1> USE DEF MessageInv, RelayNext
<1>1. CASE \/ BeginSend \/ LogSent \/ MarkFailed \/ LogFailed
           \/ GetMessageStatus \/ GetUserMessages
    BY <1>1 DEF BeginSend, LogSent, MarkFailed, LogFailed, GetMessageStatus, GetUserMessages
<1>2. CASE CreateOnionPacket
    BY <1>2 DEF CreateOnionPacket
<1>3. CASE StorePayload
  <2>1. CASE mpc' = "fail"
    BY <1>3, <2>1 DEF StorePayload, relayVars
  <2>2. CASE mpc' # "fail"
    <3>1. rpc = "idle" /\ onion \in PacketOf(Nonces, 0 .. now)
      BY <1>3 DEF StorePayload, Sequencing
    <3>2. now \in Nat
      BY DEF RelayTyped, RelayTypeOK
    <3>3. onion \in PacketOf(Nonces, 0 .. (now + Ahead))
      BY <3>1, <3>2, AheadAssumption DEF PacketOf
    <3>4. Start(onion) /\ UNCHANGED <<now, trust, nonces, accepted>>
      BY <1>3, <2>2 DEF StorePayload
    <3>5. Receive(Nonces)
      BY <3>1, <3>3, <3>4 DEF Receive
    <3> QED
      BY <3>5
  <2> QED
    BY <2>1, <2>2
<1>4. CASE UpdateStatus
    BY <1>4 DEF UpdateStatus, Respond
<1>5. CASE RelayRequest
  <2>1. Receive(ClientNonces \cup drawn)
    BY <1>5 DEF RelayRequest
  <2>2. ClientNonces \cup drawn \subseteq Nonces
    BY ClientAssumption DEF MessageTypeOK
  <2>3. PacketOf(ClientNonces \cup drawn, 0 .. (now + Ahead))
            \subseteq PacketOf(Nonces, 0 .. (now + Ahead))
    BY <2>2 DEF PacketOf
  <2>4. Receive(Nonces)
    BY <2>1, <2>3 DEF Receive
  <2> QED
    BY <2>4
<1>6. CASE RelayAnswer \/ RelayRuns \/ Environment
    BY <1>6 DEF RelayAnswer, RelayRuns, Environment
<1>7. CASE Crash
    BY <1>7 DEF Crash
<1>8. CASE UNCHANGED allVars
    BY <1>8 DEF allVars
<1> QED
    BY <1>1, <1>2, <1>3, <1>4, <1>5, <1>6, <1>7, <1>8 DEF MessageNext, SendMessage

(* Steps that leave the message service's variables alone, and do not turn *)
(* the clock back, keep its invariant.                                     *)
LEMMA RelayPartKeepsInv ==
    ASSUME MessageInv, UNCHANGED msgVars, now \in Nat, now' \in {now, now + 1},
           mpc \notin {"idle", "relay"} => rpc' = "idle"
    PROVE  MessageInv'
<1> SUFFICES MessageTypeOK' /\ Sequencing'
    BY DEF MessageInv, Untold, DeliveredIsTrue, ToldIsFinal, InTable, Exists, msgVars
<1>1. MessageTypeOK'
    BY DEF MessageInv, MessageTypeOK, InTable, Exists, msgVars
<1>2. mpc = "payload" => onion \in PacketOf(Nonces, 0 .. now')
    BY DEF MessageInv, Sequencing, PacketOf
<1>3. Sequencing'
    BY <1>2 DEF MessageInv, Sequencing, msgVars
<1> QED
    BY <1>1, <1>3

(* Every step keeps the invariant.                                         *)
LEMMA MessageInvStep ==
    ASSUME RelayTyped, MessageInv, [MessageNext]_allVars
    PROVE  MessageInv'
<1> USE DEF MessageInv, MessageTypeOK, Sequencing, Untold, DeliveredIsTrue, ToldIsFinal,
        InTable, Exists, SendSteps, Statuses, Final
<1>1. CASE BeginSend
  <2>1. PICK m \in Msgs \ InTable, u \in Senders :
            /\ messages' = [messages EXCEPT ![m] =
                  [owner |-> u, status |-> "pending", payload |-> FALSE, content |-> FALSE]]
            /\ sending' = m
    BY <1>1 DEF BeginSend
  <2>2. /\ messages'[m] \in Message
        /\ messages'[m].status = "pending"
        /\ messages'[m] # NoRow
    BY <2>1 DEF Message, NoRow
  <2>3. \A k \in Msgs \ {m} : messages'[k] = messages[k]
    BY <2>1
  <2>4. UNCHANGED <<relayVars, onion, drawn, outcome, told>> /\ mpc' = "create" /\ Idle
    BY <1>1 DEF BeginSend
  <2> QED
    BY <2>1, <2>2, <2>3, <2>4 DEF relayVars, Idle
<1>2. CASE CreateOnionPacket
  <2>1. UNCHANGED <<rpc, messages, sending, outcome, told>> /\ mpc = "create"
    BY <1>2 DEF CreateOnionPacket, relayVars
  <2>2. /\ onion' \in Packet \cup {NoPacket}
        /\ mpc' = "payload" => onion' \in PacketOf(Nonces, 0 .. now')
        /\ drawn' \subseteq Nonces
    <3>1. CASE mpc' = "fail"
      BY <1>2, <3>1 DEF CreateOnionPacket
    <3>2. CASE mpc' # "fail"
      <4>1. PICK n \in Nonces :
                /\ drawn' = drawn \cup {n}
                /\ onion' = [nonce |-> n, stamp |-> now, kind |-> "good",
                             sender |-> messages[sending].owner]
        BY <1>2, <3>2 DEF CreateOnionPacket
      <4>2. messages[sending].owner \in Senders /\ now \in Nat /\ now' = now
        BY <1>2 DEF CreateOnionPacket, Message, RelayTyped, RelayTypeOK, relayVars
      <4> QED
        BY <4>1, <4>2 DEF Packet, PacketOf, Kinds
    <3> QED
      BY <3>1, <3>2
  <2>3. mpc' \in {"payload", "fail"}
    BY <1>2 DEF CreateOnionPacket
  <2> QED
    BY <2>1, <2>2, <2>3
<1>3. CASE StorePayload
  <2>1. /\ UNCHANGED <<now, sending, onion, drawn, outcome, told>>
        /\ mpc = "payload" /\ mpc' \in {"relay", "fail"}
        /\ mpc' = "fail" => UNCHANGED <<messages, rpc>>
        /\ mpc' = "relay" => messages' = [messages EXCEPT ![sending].payload = TRUE]
    BY <1>3 DEF StorePayload
  <2>2. messages[sending] \in Message /\ sending \in Msgs
    BY <2>1
  <2>3. CASE mpc' = "relay"
    <3> DEFINE row == [messages[sending] EXCEPT !.payload = TRUE]
    <3>a. row \in Message /\ row.status = "pending" /\ row.payload /\ row # NoRow
      BY <2>1, <2>2 DEF Message, NoRow
    <3>b. messages' = [messages EXCEPT ![sending] = row]
      BY <2>1, <2>3
    <3> HIDE DEF row
    <3>1. /\ messages' \in [Msgs -> Message \cup {NoRow}]
          /\ messages'[sending] \in Message
          /\ messages'[sending].status = "pending"
          /\ messages'[sending].payload
          /\ messages'[sending] # NoRow
          /\ \A k \in Msgs \ {sending} : messages'[k] = messages[k]
      BY <2>2, <3>a, <3>b
    <3>2. MessageTypeOK'
      <4>1. sending' \in InTable' /\ mpc' \in SendSteps
        BY <2>1, <2>2, <2>3, <3>1
      <4>2. /\ messages' \in [Msgs -> Message \cup {NoRow}]
            /\ onion' \in Packet \cup {NoPacket} /\ drawn' \subseteq Nonces
            /\ sending' \in Msgs \cup {NoMessage}
        BY <2>1, <3>1
      <4> QED
        BY <2>1, <4>1, <4>2
    <3>3. Sequencing' /\ Untold'
      BY <2>1, <2>2, <2>3, <3>1
    <3>4. DeliveredIsTrue'
      BY <2>1, <2>2, <2>3, <3>1
    <3>5. ToldIsFinal'
      BY <2>1, <2>2, <2>3, <3>1
    <3> QED
      BY <3>2, <3>3, <3>4, <3>5
  <2>4. CASE mpc' = "fail"
    BY <2>1, <2>4
  <2> QED
    BY <2>1, <2>3, <2>4
<1>4. CASE UpdateStatus
  <2>1. /\ UNCHANGED <<now, sending, onion, drawn, told>>
        /\ mpc = "relay" /\ mpc' \in {"log", "fail"} /\ rpc' = "idle"
        /\ outcome' = [outcome EXCEPT ![sending] = result]
    BY <1>4 DEF UpdateStatus, RelayIdle
  <2>2. /\ messages[sending] \in Message /\ sending \in Msgs
        /\ messages[sending].status = "pending" /\ messages[sending].payload
        /\ result \in Results
    BY <2>1 DEF RelayTyped, RelayTypeOK
  <2>3. \/ UNCHANGED messages
        \/ /\ result = "delivered"
           /\ messages' = [messages EXCEPT ![sending].status = result,
                                           ![sending].content = TRUE]
        \/ /\ result = "signature-invalid"
           /\ messages' = [messages EXCEPT ![sending].status = result]
    BY <1>4 DEF UpdateStatus, SetStatus
  <2>4. /\ messages' \in [Msgs -> Message \cup {NoRow}]
        /\ messages'[sending] \in Message
        /\ messages'[sending] # NoRow
        /\ messages'[sending].status = "delivered" =>
              /\ result = "delivered"
              /\ messages'[sending].payload
              /\ messages'[sending].content
        /\ \A k \in Msgs \ {sending} : messages'[k] = messages[k]
    BY <2>2, <2>3 DEF Message, NoRow
  <2>5. /\ outcome' \in [Msgs -> Results]
        /\ outcome'[sending] = result
        /\ \A k \in Msgs \ {sending} : outcome'[k] = outcome[k]
    BY <2>1, <2>2
  <2> QED
    BY <2>1, <2>2, <2>4, <2>5
<1>5. CASE LogSent
  <2>1. UNCHANGED <<rpc, drawn, messages, outcome>> /\ mpc = "log"
    BY <1>5 DEF LogSent, relayVars
  <2>2. messages[sending] \in Message /\ messages[sending].status \in Statuses
    BY <2>1 DEF Message
  <2>3. CASE Answer(messages[sending].status) /\ HandlerEnd
    BY <2>1, <2>2, <2>3 DEF Answer, HandlerEnd
  <2>4. CASE mpc' = "fail" /\ UNCHANGED <<sending, onion, told>>
    BY <2>1, <2>4
  <2> QED
    BY <1>5, <2>3, <2>4 DEF LogSent
<1>6. CASE MarkFailed
  <2>1. UNCHANGED <<rpc, drawn, outcome, told>> /\ mpc = "fail"
    BY <1>6 DEF MarkFailed, relayVars
  <2>2. CASE HandlerEnd /\ UNCHANGED messages
    BY <2>1, <2>2 DEF HandlerEnd
  <2>3. CASE SetStatus("failed") /\ mpc' = "logFail" /\ UNCHANGED <<sending, onion>>
    <3>1. messages[sending] \in Message /\ sending \in Msgs
      BY <2>1
    <3>2. /\ messages' \in [Msgs -> Message \cup {NoRow}]
          /\ messages'[sending] \in Message
          /\ messages'[sending] # NoRow
          /\ messages'[sending].status = "failed"
          /\ \A k \in Msgs \ {sending} : messages'[k] = messages[k]
      BY <2>3, <3>1 DEF SetStatus, Message, NoRow
    <3> QED
      BY <2>1, <2>3, <3>1, <3>2
  <2> QED
    BY <1>6, <2>2, <2>3 DEF MarkFailed
<1>7. CASE LogFailed
  <2>1. /\ UNCHANGED <<rpc, drawn, messages, outcome>>
        /\ mpc = "logFail" /\ HandlerEnd
        /\ Answer("failed") \/ UNCHANGED told
    BY <1>7 DEF LogFailed, relayVars
  <2> QED
    BY <2>1 DEF Answer, HandlerEnd
<1>8. CASE GetMessageStatus \/ GetUserMessages
  <2>1. PICK shown \in SUBSET InTable : Tell(shown)
    <3>1. \A m \in Msgs, u \in Senders : MayRead(m, u) => {m} \subseteq InTable
      BY DEF MayRead
    <3>2. \A u \in Senders : {m \in Msgs : MayRead(m, u)} \subseteq InTable
      BY DEF MayRead
    <3> QED
      BY <1>8, <3>1, <3>2 DEF GetMessageStatus, GetUserMessages
  <2>2. UNCHANGED <<relayVars, messages, mpc, sending, onion, drawn, outcome>> /\ mpc = "idle"
    BY <1>8 DEF GetMessageStatus, GetUserMessages, Idle
  <2>3. \A m \in InTable : messages[m].status \in Statuses
    BY DEF Message
  <2>4. told' \in [Msgs -> Statuses \cup {"none"}]
    BY <2>1, <2>3 DEF Tell
  <2>5. ASSUME NEW m \in Msgs
        PROVE  \/ told'[m] = told[m]
               \/ m \in InTable /\ told'[m] = messages[m].status
    <3>1. CASE m \in shown
      <4>1. told'[m] = messages[m].status
        BY <2>1, <3>1, Zenon DEF Tell
      <4> QED
        BY <3>1, <4>1
    <3>2. CASE m \notin shown
      BY <2>1, <3>2 DEF Tell
    <3> QED
      BY <3>1, <3>2
  <2> QED
    BY <2>2, <2>4, <2>5 DEF relayVars
<1>n. now \in Nat
    BY DEF RelayTyped, RelayTypeOK
<1>9. CASE RelayRequest \/ RelayAnswer
    BY <1>9, <1>n, RelayPartKeepsInv
       DEF RelayRequest, RelayAnswer, Receive, Respond, Idle
<1>10. CASE RelayRuns
  <2>1. UNCHANGED <<msgVars, now>> /\ rpc # "idle"
    BY <1>10 DEF RelayRuns, ProcessPacket, ValidateNonce, ValidateTimestamp,
       RouteThroughNodes, CheckSender, StoreNonce, LogProcessed
  <2> QED
    BY <1>n, <2>1, RelayPartKeepsInv
<1>11. CASE Environment
  <2>1. UNCHANGED msgVars /\ now' \in {now, now + 1} /\ UNCHANGED rpc
    BY <1>11 DEF Environment, Tick, CertificateExpires, CertificatesChange
  <2> QED
    BY <1>n, <2>1, RelayPartKeepsInv
<1>12. CASE Crash
  <2>1. /\ UNCHANGED <<drawn, messages, outcome, told>>
        /\ mpc' = "idle" /\ sending' = NoMessage /\ onion' = NoPacket
    BY <1>12 DEF Crash, CrashAndRestart, HandlerEnd
  <2> QED
    BY <2>1
<1>13. CASE UNCHANGED allVars
    BY <1>13 DEF allVars, relayVars, msgVars
<1> QED
    BY <1>1, <1>2, <1>3, <1>4, <1>5, <1>6, <1>7, <1>8, <1>9, <1>10, <1>11, <1>12, <1>13
       DEF MessageNext, SendMessage

(* Both parts of the invariant hold in every behaviour.                    *)
LEMMA MessageInvAlways == MessageSpec => [](RelayTyped /\ MessageInv)
<1>1. RelayTyped /\ MessageInv /\ [MessageNext]_allVars => (RelayTyped /\ MessageInv)'
    BY MessageStepIsRelayStep, MessageInvStep, TypedStep
<1> QED
    BY <1>1, MessageInvInit, PTL DEF MessageSpec

(* The message service implements the relay: seen through the relay's      *)
(* variables its behaviours are the relay's own.                           *)
THEOREM MessageImplementsRelay == MessageSpec => RelaySpec
<1>1. MessageInit => RelayInit
    BY DEF MessageInit
<1>2. RelayTyped /\ MessageInv /\ [MessageNext]_allVars => [RelayNext]_relayVars
    BY MessageStepIsRelayStep
<1> QED
    BY <1>1, <1>2, MessageInvAlways, PTL DEF MessageSpec, RelaySpec

(* So with messages being sent, statements throwing and crashes, a packet  *)
(* that was accepted with a timestamp not ahead of the clock is never      *)
(* accepted again under its nonce and timestamp.                           *)
THEOREM MessageAtMostOnce == MessageSpec => AtMostOnce
  BY MessageImplementsRelay, RelayAtMostOnce, PTL

(* And no nonce, drawn by the backend or made up by a client, is accepted  *)
(* twice within the window.                                                *)
THEOREM MessageOncePerWindow == MessageSpec => OncePerWindow
  BY MessageImplementsRelay, RelayOncePerWindow, PTL

(* What holds of the nonces table holds with messages being sent, too: one *)
(* row per nonce, none but by a packet that passed every check, and none   *)
(* that leaves it before its time.                                         *)
THEOREM MessageKeepsNonces ==
    MessageSpec => []NonceRowsUnique /\ OnlyVerifiedBurns /\ RowsLeaveByAge
  BY MessageImplementsRelay, RelayRowsUnique, RelayOnlyVerifiedBurns, RelayRowsLeaveByAge, PTL

(* A row that reads "delivered" was returned as delivered by the relay and *)
(* has its packet and its text.                                            *)
THEOREM MessageDeliveredIsTrue == MessageSpec => []DeliveredIsTrue
<1>1. MessageInv => DeliveredIsTrue
    BY DEF MessageInv
<1> QED
    BY <1>1, MessageInvAlways, PTL

(* A final status a client was told is never taken back.                   *)
THEOREM MessageToldIsFinal == MessageSpec => []ToldIsFinal
<1>1. MessageInv => ToldIsFinal
    BY DEF MessageInv
<1> QED
    BY <1>1, MessageInvAlways, PTL

(* Every variable of the message service keeps its type, and a running     *)
(* sendMessage works on a row of the table.                                *)
THEOREM MessageTypeCorrect == MessageSpec => []MessageTypeOK
<1>1. MessageInv => MessageTypeOK
    BY DEF MessageInv
<1> QED
    BY <1>1, MessageInvAlways, PTL

-----------------------------------------------------------------------------
(* When no statement throws and the process does not die.                  *)

Sending == mpc \in {"create", "payload", "relay", "fail"}

QuietInv ==
    /\ \A m \in InTable : messages[m].status = "pending" => m = sending /\ Sending
    /\ \A m \in Msgs : outcome[m] = "delivered" => Exists(m) /\ messages[m].status = "delivered"
    /\ Sending => outcome[sending] # "delivered"

LEMMA QuietStep ==
    ASSUME DbFaults = FALSE, Crashes = FALSE,
           RelayTyped, MessageInv, QuietInv, [MessageNext]_allVars
    PROVE  QuietInv'
<1> USE DEF QuietInv, Sending, InTable, Exists
<1>t. /\ messages \in [Msgs -> Message \cup {NoRow}]
      /\ outcome \in [Msgs -> Results] /\ sending \in Msgs \cup {NoMessage}
      /\ mpc # "idle" => sending \in InTable
    BY DEF MessageInv, MessageTypeOK
<1>1. CASE BeginSend
  <2>1. PICK m \in Msgs \ InTable, u \in Senders :
            /\ messages' = [messages EXCEPT ![m] =
                  [owner |-> u, status |-> "pending", payload |-> FALSE, content |-> FALSE]]
            /\ sending' = m
    BY <1>1 DEF BeginSend
  <2>2. UNCHANGED outcome /\ mpc' = "create" /\ mpc = "idle"
    BY <1>1 DEF BeginSend, Idle
  <2>3. /\ messages'[m].status = "pending"
        /\ \A k \in Msgs \ {m} : messages'[k] = messages[k]
    BY <1>t, <2>1
  <2> QED
    BY <2>1, <2>2, <2>3
<1>2. CASE CreateOnionPacket
  <2>1. /\ UNCHANGED <<messages, sending, outcome>>
        /\ mpc = "create" /\ mpc' \in {"payload", "fail"}
    BY <1>2 DEF CreateOnionPacket
  <2> QED
    BY <2>1
<1>3. CASE StorePayload
  <2>1. /\ UNCHANGED <<sending, outcome>> /\ mpc = "payload" /\ mpc' = "relay"
        /\ messages' = [messages EXCEPT ![sending].payload = TRUE]
    BY <1>3 DEF StorePayload
  <2>2. /\ sending \in Msgs /\ messages[sending] \in Message
    BY <1>t, <2>1
  <2>3. \A k \in Msgs : k # sending => messages'[k] = messages[k]
    BY <1>t, <2>1
  <2>4. outcome[sending] # "delivered"
    BY <2>1
  <2> QED
    BY <2>1, <2>2, <2>3, <2>4
<1>4. CASE UpdateStatus
  <2>1. /\ UNCHANGED sending /\ mpc = "relay"
        /\ outcome' = [outcome EXCEPT ![sending] = result]
    BY <1>4 DEF UpdateStatus
  <2>2. sending \in Msgs /\ messages[sending] \in Message
    BY <1>t, <2>1
  <2>3. \/ /\ result = "delivered" /\ mpc' = "log"
           /\ messages' = [messages EXCEPT ![sending].status = result,
                                           ![sending].content = TRUE]
        \/ /\ result = "signature-invalid" /\ mpc' = "log"
           /\ messages' = [messages EXCEPT ![sending].status = result]
        \/ result = "error" /\ mpc' = "fail" /\ UNCHANGED messages
    BY <1>4 DEF UpdateStatus, SetStatus
  <2>4. outcome'[sending] = result /\ \A k \in Msgs \ {sending} : outcome'[k] = outcome[k]
    BY <1>t, <2>1, <2>2
  <2>5. \/ /\ result = "delivered" /\ mpc' = "log"
           /\ messages'[sending].status = "delivered" /\ messages'[sending] # NoRow
        \/ /\ result = "signature-invalid" /\ mpc' = "log"
           /\ messages'[sending].status = "signature-invalid"
        \/ result = "error" /\ mpc' = "fail" /\ UNCHANGED messages
    BY <1>t, <2>2, <2>3 DEF Message, NoRow
  <2>6. \A k \in Msgs \ {sending} : messages'[k] = messages[k]
    BY <1>t, <2>3
  <2> QED
    BY <2>1, <2>2, <2>4, <2>5, <2>6
<1>5. CASE LogSent
  <2>1. UNCHANGED <<messages, outcome>> /\ mpc = "log" /\ mpc' = "idle"
    BY <1>5 DEF LogSent, HandlerEnd
  <2> QED
    BY <2>1
<1>6. CASE MarkFailed
  <2>1. /\ UNCHANGED <<outcome, sending>> /\ mpc = "fail" /\ mpc' = "logFail"
        /\ messages' = [messages EXCEPT ![sending].status = "failed"]
    BY <1>6 DEF MarkFailed, SetStatus
  <2>2. sending \in Msgs /\ messages[sending] \in Message
    BY <1>t, <2>1
  <2>3. /\ messages'[sending].status = "failed"
        /\ \A k \in Msgs \ {sending} : messages'[k] = messages[k]
    BY <1>t, <2>1, <2>2 DEF Message
  <2> QED
    BY <2>1, <2>2, <2>3
<1>7. CASE LogFailed
  <2>1. UNCHANGED <<messages, outcome>> /\ mpc = "logFail" /\ mpc' = "idle"
    BY <1>7 DEF LogFailed, HandlerEnd
  <2> QED
    BY <2>1
<1>8. CASE \/ GetMessageStatus \/ GetUserMessages \/ RelayRequest \/ RelayAnswer
           \/ RelayRuns \/ Environment \/ UNCHANGED allVars
    BY <1>8 DEF GetMessageStatus, GetUserMessages, RelayRequest, RelayAnswer, RelayRuns, Environment, allVars,
       msgVars
<1> QED
    BY <1>1, <1>2, <1>3, <1>4, <1>5, <1>6, <1>7, <1>8 DEF MessageNext, SendMessage, Crash

LEMMA QuietAlways ==
    ASSUME DbFaults = FALSE, Crashes = FALSE PROVE MessageSpec => []QuietInv
<1>1. MessageInit => QuietInv
    BY DEF MessageInit, QuietInv, InTable, Exists, Sending
<1>2. RelayTyped /\ MessageInv /\ QuietInv /\ [MessageNext]_allVars => QuietInv'
    BY QuietStep
<1> QED
    BY <1>1, <1>2, MessageInvAlways, PTL DEF MessageSpec

(* As long as nothing fails no message is pending between two requests.    *)
THEOREM MessageNothingPending ==
    ASSUME DbFaults = FALSE, Crashes = FALSE PROVE MessageSpec => []NothingLeftPending
<1>1. QuietInv => NothingLeftPending
    BY DEF QuietInv, Sending, NothingLeftPending, Idle
<1> QED
    BY <1>1, QuietAlways, PTL

(* As long as nothing fails a message the relay delivered reads delivered. *)
THEOREM MessageFollowsRelay ==
    ASSUME DbFaults = FALSE, Crashes = FALSE PROVE MessageSpec => []StatusFollowsRelay
<1>1. QuietInv => StatusFollowsRelay
    BY DEF QuietInv, StatusFollowsRelay, InTable
<1> QED
    BY <1>1, QuietAlways, PTL
=============================================================================
