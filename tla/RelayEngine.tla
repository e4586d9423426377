---------------------------- MODULE RelayEngine ----------------------------
(***************************************************************************)
(* The relay of the DarkTunnel backend (backend/services/relayEngine.js):  *)
(* one request at a time walks an onion packet through the nonce check,    *)
(* the timestamp check, the three relay nodes, the sender checks and the   *)
(* nonce store.                                                            *)
(*                                                                         *)
(* The handler is synchronous JavaScript, so no other handler runs inside  *)
(* it.  It is still not atomic: every SQL statement commits by itself, the *)
(* clock is read anew by each step, any statement can throw, and the       *)
(* process can die between two of them.  Each action below is therefore    *)
(* one stretch of code that ends at a durable write or at a clock reading. *)
(*                                                                         *)
(* Nonce and timestamp travel in the clear, bound neither to the encrypted *)
(* layers nor to the signature: whoever calls POST /api/relay/process      *)
(* chooses them, may change them under layers it has seen before, leave    *)
(* them out, or send a timestamp that is no number.  Certificates appear   *)
(* only through "trust", the subjects whose stored certificate             *)
(* pkiService.verifyCertificate accepts now; the environment changes it    *)
(* here, and module PKIService says how.                                   *)
(***************************************************************************)
EXTENDS Integers

CONSTANTS
    Nonces,     \* the values a nonce can have, told apart as the nonces table does
    Nodes,      \* the relay nodes of the nodes table
    Senders,    \* the registered users
    Window,     \* NONCE_WINDOW_SECONDS
    None,       \* a nonce or timestamp that is absent (or falsy)
    Unbindable, \* a nonce SQLite takes no parameter of, such as true
    NaN,        \* a timestamp that is there and is no number
    Ahead,      \* bound: how far ahead of the server's clock timestamps are explored
    MaxNow,     \* bound: the last instant explored
    DbFaults    \* TRUE when a statement on the database may throw

ASSUME WindowAssumption == Window \in Nat
ASSUME NonceAssumption  == Nonces \cap {None, Unbindable} = {} /\ None # Unbindable
ASSUME StampAssumption  == NaN \notin Nat /\ None \notin Nat /\ NaN # None
ASSUME AheadAssumption  == Ahead \in Nat
ASSUME MaxNowAssumption == MaxNow \in Nat
ASSUME FaultsAssumption == DbFaults \in BOOLEAN

VARIABLES
    now,        \* Date.now()
    trust,      \* the subjects whose stored certificate verifies
    nonces,     \* the nonces table: rows [nonce, at]
    rpc,        \* where the relay handler stands
    cur,        \* the packet it is processing
    result,     \* what processPacket returned or threw
    accepted    \* history: the packets that got past every check, and when

relayVars == <<now, trust, nonces, rpc, cur, result, accepted>>

Subjects == Nodes \cup Senders

(***************************************************************************)
(* What the layers of a packet may turn out to be.  Those of the backend   *)
(* are "good"; a client can also present layers that do not decrypt, a     *)
(* payload that names no user, or one whose signature does not match.      *)
(***************************************************************************)
Kinds == {"good", "garbled", "orphan", "badSignature"}

PacketOf(N, T) == [nonce : N \cup {None, Unbindable}, stamp : T \cup {NaN, None},
                   kind : Kinds, sender : Senders]
Packet   == PacketOf(Nonces, Nat)
Row      == [nonce : Nonces, at : Nat]
NoPacket == [nonce |-> "none"]

RelaySteps == {"idle", "nonce", "timestamp", "route", "sender", "store", "log", "done"}
Results    == {"none", "delivered", "signature-invalid", "error"}

RelayInit ==
    /\ now = 0
    /\ trust \in SUBSET Subjects
    /\ nonces = {}
    /\ rpc = "idle"
    /\ cur = NoPacket
    /\ result = "none"
    /\ accepted = {}

-----------------------------------------------------------------------------
(* The environment: time and certificates.                                 *)

Tick ==
    /\ now < MaxNow
    /\ now' = now + 1
    /\ UNCHANGED <<trust, nonces, rpc, cur, result, accepted>>

(* A certificate runs out: this alone can happen while a handler runs. *)
CertificateExpires ==
    /\ \E s \in trust : trust' = trust \ {s}
    /\ UNCHANGED <<now, nonces, rpc, cur, result, accepted>>

-----------------------------------------------------------------------------
(* processPacket.                                                          *)

Reply(r) == rpc' = "done" /\ result' = r

(* The statement at hand throws: processPacket throws with it. *)
Throws == DbFaults /\ Reply("error")

Start(p) == rpc' = "nonce" /\ cur' = p /\ result' = "none"

(* relayController.processPacket hands over whatever packet the client      *)
(* sent: any layers, new or seen before, under a nonce of N or none.       *)
Receive(N) ==
    /\ rpc = "idle"
    /\ \E p \in PacketOf(N, 0 .. (now + Ahead)) : Start(p)
    /\ UNCHANGED <<now, trust, nonces, accepted>>

(* Mutant of Stale: <= where the DELETE says <. *)
StaleAtTheEdge(row) == row.at <= now - Window

Stale(row) == row.at < now - Window
Purged     == {row \in nonces : ~Stale(row)}
Seen(n, table) == \E row \in table : row.nonce = n

(* Mutant of ValidateNonce: the nonce is taken when it is first seen,       *)
(* before the packet has passed any other check.                           *)
ValidateNonceBurns ==
    /\ rpc = "nonce"
    /\ IF cur.nonce \in {None, Unbindable} \/ Seen(cur.nonce, Purged)
         THEN Reply("error") /\ nonces' = Purged
         ELSE /\ nonces' = Purged \cup {[nonce |-> cur.nonce, at |-> now]}
              /\ rpc' = "timestamp" /\ UNCHANGED result
    /\ UNCHANGED <<now, trust, cur, accepted>>

(* Mutant of ValidateNonce: the purge without the lookup. *)
ValidateNonceOnlyPurges ==
    /\ rpc = "nonce"
    /\ nonces' = Purged
    /\ IF cur.nonce \in {None, Unbindable}
         THEN Reply("error")
         ELSE rpc' = "timestamp" /\ UNCHANGED result
    /\ UNCHANGED <<now, trust, cur, accepted>>

(* _validateNonce: purge what left the window, then look the nonce up;      *)
(* binding it to the lookup may already fail.                              *)
ValidateNonce ==
    /\ rpc = "nonce"
    /\ \/ /\ cur.nonce = None
          /\ Reply("error")
          /\ UNCHANGED nonces
       \/ /\ cur.nonce # None
          /\ nonces' = Purged
          /\ IF cur.nonce = Unbindable \/ Seen(cur.nonce, nonces')
               THEN Reply("error")
               ELSE rpc' = "timestamp" /\ UNCHANGED result
       \/ /\ Throws
          /\ nonces' \in {nonces, Purged}
    /\ UNCHANGED <<now, trust, cur, accepted>>

(* Math.abs of a difference that is NaN is not greater than anything.      *)
TooFar(t) == t # NaN /\ (t > now + Window \/ t < now - Window)

(* _validateTimestamp: reads the clock again. *)
ValidateTimestamp ==
    /\ rpc = "timestamp"
    /\ IF cur.stamp = None \/ TooFar(cur.stamp)
         THEN Reply("error")
         ELSE rpc' = "route" /\ UNCHANGED result
    /\ UNCHANGED <<now, trust, nonces, cur, accepted>>

(* A layer that was made for another key, or is changed, does not          *)
(* authenticate; all three are layers of one packet.                       *)
Decrypts(p) == p.kind # "garbled"

(* Three times _processNode: verify the node's certificate, unwrap,         *)
(* decrypt.  Certificates only run out while a handler runs, so checking   *)
(* the three at one instant loses no outcome.                              *)
RouteThroughNodes ==
    /\ rpc = "route"
    /\ \/ /\ Nodes \subseteq trust /\ Decrypts(cur)
          /\ rpc' = "sender"
          /\ UNCHANGED result
       \/ ~(Nodes \subseteq trust) /\ Reply("error")
       \/ ~Decrypts(cur) /\ Reply("error")
       \/ Throws
    /\ UNCHANGED <<now, trust, nonces, cur, accepted>>

(* Does the signature of the payload match its text and the key in the      *)
(* sender's row?                                                           *)
SignatureVerifies(p) == p.kind # "badSignature"

(* The sender must exist, hold a valid certificate and have signed. *)
CheckSender ==
    /\ rpc = "sender"
    /\ \/ cur.kind = "orphan" /\ Reply("error")
       \/ cur.kind # "orphan" /\ cur.sender \notin trust /\ Reply("signature-invalid")
       \/ /\ cur.kind # "orphan" /\ cur.sender \in trust
          /\ ~SignatureVerifies(cur)
          /\ Reply("signature-invalid")
       \/ /\ cur.kind # "orphan" /\ cur.sender \in trust
          /\ SignatureVerifies(cur)
          /\ rpc' = "store" /\ UNCHANGED result
       \/ Throws
    /\ UNCHANGED <<now, trust, nonces, cur, accepted>>

Record == accepted' = accepted \cup {[packet |-> cur, at |-> now]}

(* Mutant of StoreNonce: an exception of the INSERT is swallowed. *)
StoreNonceOrNot ==
    /\ rpc = "store"
    /\ nonces' = nonces \cup {[nonce |-> cur.nonce, at |-> now]} \/ UNCHANGED nonces
    /\ rpc' = "log"
    /\ Record
    /\ UNCHANGED <<now, trust, cur, result>>

(* Mutant of StoreNonce: the row keeps the start of the window. *)
StoreNonceWindowStart ==
    /\ rpc = "store"
    /\ nonces' = nonces \cup {[nonce |-> cur.nonce, at |-> now - Window]}
    /\ rpc' = "log"
    /\ Record
    /\ UNCHANGED <<now, trust, cur, result>>

(* _storeNonce: stamped with the server's clock, not with the packet's.     *)
(* Its row is what "accepted" means: nothing after it refuses the packet.  *)
StoreNonce ==
    /\ rpc = "store"
    /\ \/ /\ nonces' = nonces \cup {[nonce |-> cur.nonce, at |-> now]}
          /\ rpc' = "log"
          /\ Record
          /\ UNCHANGED result
       \/ Throws /\ UNCHANGED <<nonces, accepted>>
    /\ UNCHANGED <<now, trust, cur>>

(* The PACKET_PROCESSED entry is the last statement that can throw. *)
LogProcessed ==
    /\ rpc = "log"
    /\ Reply("delivered") \/ Throws
    /\ UNCHANGED <<now, trust, nonces, cur, accepted>>

ProcessPacket ==
    \/ ValidateNonce
    \/ ValidateTimestamp
    \/ RouteThroughNodes
    \/ CheckSender
    \/ StoreNonce
    \/ LogProcessed

-----------------------------------------------------------------------------
(* The handler's end, and the process's.                                   *)

RelayIdle == rpc' = "idle" /\ cur' = NoPacket /\ result' = "none"

Respond ==
    /\ rpc = "done"
    /\ RelayIdle
    /\ UNCHANGED <<now, trust, nonces, accepted>>

(* Other handlers issue and revoke certificates between two requests. *)
CertificatesChange ==
    /\ rpc = "idle"
    /\ trust' \in SUBSET Subjects
    /\ UNCHANGED <<now, nonces, rpc, cur, result, accepted>>

(* The process dies and is started again; the database survives. *)
CrashAndRestart ==
    /\ RelayIdle
    /\ trust' \in SUBSET Subjects
    /\ UNCHANGED <<now, nonces, accepted>>

RelayNext ==
    \/ Tick
    \/ CertificateExpires
    \/ Receive(Nonces)
    \/ ProcessPacket
    \/ Respond
    \/ CertificatesChange
    \/ CrashAndRestart

RelaySpec == RelayInit /\ [][RelayNext]_relayVars

-----------------------------------------------------------------------------
(* Properties.                                                             *)

RelayTypeOK ==
    /\ now \in Nat
    /\ trust \subseteq Subjects
    /\ nonces \subseteq Row
    /\ rpc \in RelaySteps
    /\ cur \in Packet \cup {NoPacket}
    /\ result \in Results
    /\ accepted \subseteq [packet : Packet, at : Nat]

(* The packet at hand is accepted by this step. *)
Accepts == rpc = "store" /\ rpc' = "log"

(* The packet of a was stamped by a clock that was not ahead. *)
InTime(a) == a.packet.stamp \in Nat /\ a.packet.stamp <= a.at

(* A packet that was accepted with a timestamp not ahead of the server's   *)
(* clock is not accepted again under that nonce and timestamp, at any time *)
(* to come: whatever the process forgets in a crash, and however the three *)
(* clock readings of one request (purge, timestamp check, nonce store)     *)
(* fall.                                                                   *)
AtMostOnce ==
    [][Accepts =>
          \A a \in accepted :
              a.packet.nonce = cur.nonce /\ a.packet.stamp = cur.stamp => ~InTime(a)
      ]_relayVars

(* Whatever timestamp a client writes on a packet, a nonce is not accepted *)
(* again before the window has passed since it was accepted last.          *)
OncePerWindow ==
    [][Accepts =>
          \A a \in accepted : a.packet.nonce = cur.nonce => now > a.at + Window
      ]_relayVars

(* No packet is accepted a second time, whatever its timestamp says.       *)
ReplayRejected == \A a, b \in accepted : a.packet = b.packet => a = b

(* The UNIQUE constraint on nonces.nonce never fires: by the time          *)
(* _storeNonce runs the table holds no row for this nonce.                 *)
NonceRowsUnique ==
    \A r, s \in nonces : r.nonce = s.nonce => r = s

(* A packet that is turned away uses no nonce up: a row enters the table   *)
(* only for the packet at hand, when its layers, its sender and its        *)
(* signature are good and its timestamp is no older than the window (or is *)
(* no number, which the code lets pass).                                   *)
OnlyVerifiedBurns ==
    [][\A row \in nonces' \ nonces :
          /\ cur.nonce = row.nonce
          /\ cur.kind = "good"
          /\ cur.stamp = NaN \/ (cur.stamp \in Nat /\ cur.stamp - Window <= row.at)
      ]_relayVars

(* A row leaves the table only by age, in the purge.                       *)
RowsLeaveByAge ==
    [][\A row \in nonces \ nonces' : now > row.at + Window]_relayVars
=============================================================================
