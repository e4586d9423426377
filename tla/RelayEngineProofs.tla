-------------------------- MODULE RelayEngineProofs ------------------------
(***************************************************************************)
(* Proofs about RelayEngine, for every set of nonces, nodes and senders,   *)
(* every window and whatever the clients write into nonce and timestamp.   *)
(*                                                                         *)
(* The inductive invariant has four layers.  RelayTyped gives the types    *)
(* and says that past the nonce check the handler has a nonce that can be  *)
(* stored.  RowsInv: between the nonce check and the nonce store the table *)
(* has no row for the nonce at hand.  OnceInv: an accepted packet has its  *)
(* row until the window has passed, and past the timestamp check the       *)
(* packet at hand is none that was accepted in time.  CheckedSoFar: what   *)
(* the checks passed so far say of the packet at hand.                     *)
(***************************************************************************)
EXTENDS RelayEngine, TLAPS

Acceptance == [packet : Packet, at : Nat]

CurIsPacket ==
    /\ rpc # "idle" => cur \in Packet
    /\ rpc \in {"timestamp", "route", "sender", "store"} => cur.nonce \in Nonces

RelayTyped == RelayTypeOK /\ CurIsPacket

(* Types are right initially. *)
LEMMA TypedInit == RelayInit => RelayTyped
  BY DEF RelayInit, RelayTyped, RelayTypeOK, CurIsPacket, Subjects, RelaySteps, Results

(* Every step keeps the types. *)
LEMMA TypedStep == RelayTyped /\ [RelayNext]_relayVars => RelayTyped'
<1> SUFFICES ASSUME RelayTyped, [RelayNext]_relayVars
             PROVE  RelayTyped'
    OBVIOUS
<1> USE DEF RelayTyped, RelayTypeOK, CurIsPacket, RelaySteps, Results
<1>1. CASE Tick
    BY <1>1 DEF Tick
<1>2. CASE CertificateExpires
    BY <1>2 DEF CertificateExpires
<1>3. CASE Receive(Nonces)
  <2>1. PICK p \in PacketOf(Nonces, 0 .. (now + Ahead)) : Start(p)
    BY <1>3 DEF Receive
  <2>2. p \in Packet
    BY AheadAssumption DEF Packet, PacketOf
  <2> QED
    BY <1>3, <2>1, <2>2 DEF Receive, Start
<1>4. CASE ValidateNonce
  <2>1. rpc' = "timestamp" => cur.nonce \in Nonces
    BY <1>4 DEF ValidateNonce, Reply, Throws, Packet, PacketOf
  <2> QED
    BY <1>4, <2>1 DEF ValidateNonce, Purged, Reply, Throws
<1>5. CASE ValidateTimestamp
    BY <1>5 DEF ValidateTimestamp, Reply
<1>6. CASE RouteThroughNodes
    BY <1>6 DEF RouteThroughNodes, Reply, Throws
<1>7. CASE CheckSender
    BY <1>7 DEF CheckSender, Reply, Throws
<1>8. CASE StoreNonce
  <2>1. [nonce |-> cur.nonce, at |-> now] \in Row /\ [packet |-> cur, at |-> now] \in Acceptance
    BY <1>8 DEF StoreNonce, Row, Acceptance
  <2> QED
    BY <1>8, <2>1 DEF StoreNonce, Throws, Reply, Record, Acceptance
<1>9. CASE LogProcessed
    BY <1>9 DEF LogProcessed, Throws, Reply
<1>10. CASE Respond
    BY <1>10 DEF Respond, RelayIdle
<1>11. CASE CertificatesChange
    BY <1>11 DEF CertificatesChange
<1>12. CASE CrashAndRestart
    BY <1>12 DEF CrashAndRestart, RelayIdle
<1>13. CASE UNCHANGED relayVars
    BY <1>13 DEF relayVars
<1> QED
    BY <1>1, <1>2, <1>3, <1>4, <1>5, <1>6, <1>7, <1>8, <1>9, <1>10, <1>11, <1>12, <1>13
       DEF RelayNext, ProcessPacket

(* Every variable keeps its type, in every behaviour of the relay. *)
THEOREM RelayTypeCorrect == RelaySpec => []RelayTypeOK
<1>1. RelayTyped => RelayTypeOK
    BY DEF RelayTyped
<1> QED
    BY <1>1, TypedInit, TypedStep, PTL DEF RelaySpec

-----------------------------------------------------------------------------
(* The rows of the nonces table.                                           *)

NotSeenYet ==
    rpc \in {"timestamp", "route", "sender", "store"} => ~Seen(cur.nonce, nonces)

RowsInv == NonceRowsUnique /\ NotSeenYet

(* Every step keeps the rows unique and the nonce at hand unseen.          *)
LEMMA RowsStep ==
    RelayTyped /\ RowsInv /\ [RelayNext]_relayVars => RowsInv'
<1> SUFFICES ASSUME RelayTyped, RowsInv, [RelayNext]_relayVars
             PROVE  RowsInv'
    OBVIOUS
<1> USE DEF RowsInv, NonceRowsUnique, NotSeenYet, Seen
<1>1. CASE Tick \/ CertificateExpires \/ Receive(Nonces)
    BY <1>1 DEF Tick, CertificateExpires, Receive, Start
<1>2. CASE ValidateNonce
    BY <1>2 DEF ValidateNonce, Purged, Reply, Throws
<1>3. CASE ValidateTimestamp \/ RouteThroughNodes \/ CheckSender
    BY <1>3 DEF ValidateTimestamp, RouteThroughNodes, CheckSender, Reply, Throws
<1>4. CASE StoreNonce
    BY <1>4 DEF StoreNonce, Reply, Throws
<1>5. CASE LogProcessed
    BY <1>5 DEF LogProcessed, Reply, Throws
<1>6. CASE Respond \/ CertificatesChange \/ CrashAndRestart
    BY <1>6 DEF Respond, CertificatesChange, CrashAndRestart, RelayIdle
<1>7. CASE UNCHANGED relayVars
    BY <1>7 DEF relayVars
<1> QED
    BY <1>1, <1>2, <1>3, <1>4, <1>5, <1>6, <1>7 DEF RelayNext, ProcessPacket

(* RowsInv holds in every behaviour.                                       *)
LEMMA RowsAlways == RelaySpec => []RowsInv
<1>1. RelayInit => RowsInv
    BY DEF RelayInit, RowsInv, NonceRowsUnique, NotSeenYet
<1> QED
    BY <1>1, TypedInit, TypedStep, RowsStep, PTL DEF RelaySpec

(* Whatever the clients send, no two rows of the nonces table carry the    *)
(* same nonce: _storeNonce never runs into the UNIQUE constraint.          *)
THEOREM RelayRowsUnique == RelaySpec => []NonceRowsUnique
<1>1. RowsInv => NonceRowsUnique
    BY DEF RowsInv
<1> QED
    BY <1>1, RowsAlways, PTL

(* In one step, a row leaves only past the window. *)
LEMMA LeaveByAgeStep ==
    ASSUME RelayTyped, RelayNext, NEW row \in nonces \ nonces'
    PROVE  now > row.at + Window
<1>1. ValidateNonce /\ Stale(row)
    BY DEF RelayNext, ProcessPacket, Tick, CertificateExpires, Receive, ValidateNonce, Purged,
           ValidateTimestamp, RouteThroughNodes, CheckSender, StoreNonce, LogProcessed,
           Respond, CertificatesChange, CrashAndRestart
<1>2. now \in Nat /\ row.at \in Nat
    BY DEF RelayTyped, RelayTypeOK, Row
<1> QED
    BY <1>1, <1>2, WindowAssumption DEF Stale

(* A row leaves the nonces table only in the purge, once its age is past   *)
(* the window: no crash and no rejected packet frees a nonce early.        *)
THEOREM RelayRowsLeaveByAge == RelaySpec => RowsLeaveByAge
<1>1. RelayTyped /\ [RelayNext]_relayVars
          => [\A row \in nonces \ nonces' : now > row.at + Window]_relayVars
    BY LeaveByAgeStep
<1> QED
    BY <1>1, TypedInit, TypedStep, PTL DEF RelaySpec, RowsLeaveByAge

-----------------------------------------------------------------------------
(* What has been accepted.                                                 *)

RowOf(a) == [nonce |-> a.packet.nonce, at |-> a.at]

(* The row an acceptance left is there until the window has passed. *)
Remembered == \A a \in accepted : RowOf(a) \in nonces \/ now > a.at + Window

Repeats(a) == a.packet.nonce = cur.nonce /\ a.packet.stamp = cur.stamp

(* Past the timestamp check the packet at hand is new, or was stamped ahead. *)
NotInTimeBefore ==
    rpc \in {"route", "sender", "store"} => \A a \in accepted : Repeats(a) => ~InTime(a)

OnceInv == Remembered /\ NotInTimeBefore

(* Past the nonce check no acceptance of the nonce at hand is within the   *)
(* window.                                                                 *)
LEMMA AcceptedBeforeWindow ==
    ASSUME RelayTyped, RowsInv, OnceInv,
           rpc \in {"timestamp", "route", "sender", "store"},
           NEW a \in accepted, a.packet.nonce = cur.nonce
    PROVE  now > a.at + Window
<1>1. RowOf(a) \notin nonces
    BY DEF RowsInv, NotSeenYet, Seen, RowOf
<1> QED
    BY <1>1 DEF OnceInv, Remembered

(* Every step keeps OnceInv.                                               *)
LEMMA OnceStep ==
    ASSUME RelayTyped, RowsInv, OnceInv, [RelayNext]_relayVars
    PROVE  OnceInv'
<1> USE WindowAssumption
<1>t. now \in Nat /\ accepted \subseteq Acceptance
    BY DEF RelayTyped, RelayTypeOK, Acceptance
<1>1. CASE Tick
  <2>1. now' = now + 1 /\ UNCHANGED <<nonces, rpc, cur, accepted>>
    BY <1>1 DEF Tick
  <2>2. \A a \in accepted : now > a.at + Window => now' > a.at + Window
    BY <1>t, <2>1 DEF Acceptance
  <2> QED
    BY <2>1, <2>2 DEF OnceInv, Remembered, NotInTimeBefore, Repeats, InTime, RowOf
<1>2. CASE CertificateExpires \/ CertificatesChange \/ Receive(Nonces) \/ LogProcessed
           \/ Respond \/ CrashAndRestart
  <2>1. UNCHANGED <<now, nonces, accepted>>
        /\ (rpc' \in {"idle", "nonce", "done"} \/ UNCHANGED <<rpc, cur>>)
    BY <1>2 DEF CertificateExpires, CertificatesChange, Receive, Start, LogProcessed, Respond,
       CrashAndRestart, RelayIdle, Throws, Reply
  <2> QED
    BY <2>1 DEF OnceInv, Remembered, NotInTimeBefore, Repeats, InTime, RowOf
<1>3. CASE ValidateNonce
  <2>1. UNCHANGED <<now, accepted>> /\ rpc' \in {"timestamp", "done"}
    BY <1>3 DEF ValidateNonce, Reply, Throws
  <2>2. ASSUME NEW a \in accepted, RowOf(a) \in nonces \ nonces'
        PROVE  now > a.at + Window
    BY <1>3, <2>2, LeaveByAgeStep DEF RelayNext, ProcessPacket, RowOf
  <2> QED
    BY <2>1, <2>2 DEF OnceInv, Remembered, NotInTimeBefore, RowOf
<1>4. CASE ValidateTimestamp
  <2>1. UNCHANGED <<now, nonces, cur, accepted>> /\ rpc = "timestamp"
    BY <1>4 DEF ValidateTimestamp
  <2>2. rpc' = "done" \/ ~TooFar(cur.stamp)
    BY <1>4 DEF ValidateTimestamp, Reply
  <2>3. ASSUME ~TooFar(cur.stamp), NEW a \in accepted, Repeats(a), InTime(a)
        PROVE  FALSE
    <3>1. now > a.at + Window
      BY <2>1, <2>3, AcceptedBeforeWindow DEF Repeats
    <3>2. cur.stamp \in Nat /\ cur.stamp <= a.at /\ a.at \in Nat
      BY <1>t, <2>3 DEF Repeats, InTime, Acceptance
    <3>3. now <= cur.stamp + Window
      BY <1>t, <2>3, <3>2, StampAssumption DEF TooFar
    <3> QED
      BY <1>t, <3>1, <3>2, <3>3
  <2> QED
    BY <2>1, <2>2, <2>3 DEF OnceInv, Remembered, NotInTimeBefore, Repeats, InTime, RowOf
<1>5. CASE RouteThroughNodes \/ CheckSender
  <2>1. UNCHANGED <<now, nonces, cur, accepted>> /\ rpc \in {"route", "sender"}
    BY <1>5 DEF RouteThroughNodes, CheckSender
  <2> QED
    BY <2>1 DEF OnceInv, Remembered, NotInTimeBefore, Repeats, InTime, RowOf
<1>6. CASE StoreNonce
  <2>1. UNCHANGED <<now, cur>> /\ rpc' \in {"log", "done"} /\ nonces \subseteq nonces'
    BY <1>6 DEF StoreNonce, Reply, Throws
  <2>2. \/ UNCHANGED accepted
        \/ /\ accepted' = accepted \cup {[packet |-> cur, at |-> now]}
           /\ RowOf([packet |-> cur, at |-> now]) \in nonces'
    BY <1>6 DEF StoreNonce, Record, Throws, RowOf
  <2> QED
    BY <2>1, <2>2 DEF OnceInv, Remembered, NotInTimeBefore, RowOf
<1>7. CASE UNCHANGED relayVars
    BY <1>7 DEF relayVars, OnceInv, Remembered, NotInTimeBefore, Repeats, InTime, RowOf
<1> QED
    BY <1>1, <1>2, <1>3, <1>4, <1>5, <1>6, <1>7 DEF RelayNext, ProcessPacket

(* OnceInv holds in every behaviour.                                       *)
LEMMA OnceAlways == RelaySpec => [](RelayTyped /\ RowsInv /\ OnceInv)
<1>1. RelayInit => OnceInv
    BY DEF RelayInit, OnceInv, Remembered, NotInTimeBefore
<1>2. RelayTyped /\ RowsInv /\ OnceInv /\ [RelayNext]_relayVars => OnceInv'
    BY OnceStep
<1> QED
    BY <1>1, <1>2, RowsAlways, TypedInit, TypedStep, PTL DEF RelaySpec

(* A packet that was accepted with a timestamp not ahead of the server's   *)
(* clock is never accepted again under its nonce and timestamp, over any   *)
(* number of crashes and repetitions.                                      *)
THEOREM RelayAtMostOnce == RelaySpec => AtMostOnce
<1>1. RelayTyped /\ RowsInv /\ OnceInv /\ [RelayNext]_relayVars
          => [Accepts =>
                 \A a \in accepted :
                     a.packet.nonce = cur.nonce /\ a.packet.stamp = cur.stamp => ~InTime(a)
             ]_relayVars
    BY DEF OnceInv, NotInTimeBefore, Repeats, Accepts
<1> QED
    BY <1>1, OnceAlways, PTL DEF RelaySpec, AtMostOnce

(* And no nonce is accepted twice within the window, whatever timestamps   *)
(* the clients write, numbers or not.                                      *)
THEOREM RelayOncePerWindow == RelaySpec => OncePerWindow
<1>1. RelayTyped /\ RowsInv /\ OnceInv /\ [RelayNext]_relayVars
          => [Accepts =>
                 \A a \in accepted : a.packet.nonce = cur.nonce => now > a.at + Window
             ]_relayVars
    BY AcceptedBeforeWindow DEF Accepts
<1> QED
    BY <1>1, OnceAlways, PTL DEF RelaySpec, OncePerWindow

-----------------------------------------------------------------------------
(* Only a verified packet burns its nonce.                                 *)

(* What the handler knows of the packet it has taken so far. *)
CheckedSoFar ==
    /\ rpc \in {"route", "sender", "store"} =>
          cur.stamp = NaN \/ (cur.stamp \in Nat /\ cur.stamp - Window <= now)
    /\ rpc \in {"sender", "store"} => cur.kind # "garbled"
    /\ rpc = "store" => cur.kind = "good"

(* Every step keeps it. *)
LEMMA CheckedStep ==
    ASSUME RelayTyped, CheckedSoFar, [RelayNext]_relayVars
    PROVE  CheckedSoFar'
<1> USE WindowAssumption
<1>t. now \in Nat /\ (rpc # "idle" => cur \in Packet)
    BY DEF RelayTyped, RelayTypeOK, CurIsPacket
<1>1. CASE Tick
  <2>1. now' = now + 1 /\ UNCHANGED <<rpc, cur>>
    BY <1>1 DEF Tick
  <2> QED
    BY <1>t, <2>1 DEF CheckedSoFar
<1>2. CASE \/ CertificateExpires \/ CertificatesChange \/ Receive(Nonces) \/ ValidateNonce
           \/ StoreNonce \/ LogProcessed \/ Respond \/ CrashAndRestart \/ UNCHANGED relayVars
  <2>1. \/ rpc' \in {"idle", "nonce", "timestamp", "log", "done"}
        \/ UNCHANGED <<now, rpc, cur>>
    BY <1>2 DEF CertificateExpires, CertificatesChange, Receive, Start, ValidateNonce,
       StoreNonce, LogProcessed, Respond, CrashAndRestart, RelayIdle, Throws, Reply, relayVars
  <2> QED
    BY <2>1 DEF CheckedSoFar
<1>3. CASE ValidateTimestamp
  <2>1. UNCHANGED <<now, cur>> /\ rpc = "timestamp" /\ rpc' \in {"route", "done"}
    BY <1>3 DEF ValidateTimestamp, Reply
  <2>2. rpc' = "route" => cur.stamp # None /\ ~TooFar(cur.stamp)
    BY <1>3 DEF ValidateTimestamp, Reply
  <2>3. cur.stamp \in Nat \cup {NaN, None}
    BY <1>t, <2>1 DEF Packet, PacketOf
  <2> QED
    BY <1>t, <2>1, <2>2, <2>3 DEF CheckedSoFar, TooFar
<1>4. CASE RouteThroughNodes \/ CheckSender
  <2>1. UNCHANGED <<now, cur>> /\ rpc \in {"route", "sender"}
    BY <1>4 DEF RouteThroughNodes, CheckSender
  <2>2. \/ rpc' = "done"
        \/ rpc = "route" /\ rpc' = "sender" /\ cur.kind # "garbled"
        \/ /\ rpc = "sender" /\ rpc' = "store"
           /\ cur.kind \notin {"orphan", "badSignature"}
    BY <1>4 DEF RouteThroughNodes, CheckSender, Reply, Throws, Decrypts, SignatureVerifies
  <2>3. cur.kind \in Kinds
    BY <1>t, <2>1 DEF Packet, PacketOf
  <2> QED
    BY <2>1, <2>2, <2>3 DEF CheckedSoFar, Kinds
<1> QED
    BY <1>1, <1>2, <1>3, <1>4 DEF RelayNext, ProcessPacket

(* A packet that is turned away, at whatever check, uses no nonce up, and  *)
(* none but its own is ever used up by one that is accepted.               *)
THEOREM RelayOnlyVerifiedBurns == RelaySpec => OnlyVerifiedBurns
<1>1. RelayInit => CheckedSoFar
    BY DEF RelayInit, CheckedSoFar
<1>2. RelayTyped /\ CheckedSoFar /\ [RelayNext]_relayVars => CheckedSoFar'
    BY CheckedStep
<1>3. ASSUME RelayTyped, CheckedSoFar, RelayNext, NEW row \in nonces' \ nonces
      PROVE  /\ cur.nonce = row.nonce
             /\ cur.kind = "good"
             /\ cur.stamp = NaN \/ (cur.stamp \in Nat /\ cur.stamp - Window <= row.at)
  <2>1. rpc = "store" /\ row = [nonce |-> cur.nonce, at |-> now]
    BY <1>3 DEF RelayNext, ProcessPacket, Tick, CertificateExpires, Receive, ValidateNonce,
       Purged, ValidateTimestamp, RouteThroughNodes, CheckSender, StoreNonce, LogProcessed,
       Respond, CertificatesChange, CrashAndRestart
  <2> QED
    BY <1>3, <2>1 DEF CheckedSoFar
<1>4. RelayTyped /\ CheckedSoFar /\ [RelayNext]_relayVars
          => [\A row \in nonces' \ nonces :
                 /\ cur.nonce = row.nonce
                 /\ cur.kind = "good"
                 /\ cur.stamp = NaN \/ (cur.stamp \in Nat /\ cur.stamp - Window <= row.at)
             ]_relayVars
    BY <1>3
<1> QED
    BY <1>1, <1>2, <1>4, TypedInit, TypedStep, PTL DEF RelaySpec, OnlyVerifiedBurns
=============================================================================
