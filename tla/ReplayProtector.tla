--------------------------- MODULE ReplayProtector -------------------------
(***************************************************************************)
(* The nonce cache of the SecureVault toolkit                              *)
(* (securevault/replay_protection.py), shared by the threads of a process. *)
(*                                                                         *)
(* check_nonce reads the clock once before it takes the lock, to compute   *)
(* the message's age, and once more inside, to evict old nonces.  Time     *)
(* passes in between, most of all while the thread waits for the lock, so  *)
(* the two readings are two steps here.  A message is a nonce with the     *)
(* stamp its sender gave it; a caller may also leave the stamp out.        *)
(***************************************************************************)
EXTENDS Integers

CONSTANTS
    Threads,    \* the threads that share one ReplayProtector
    Nonces,     \* the nonces messages carry
    Window,     \* window_seconds
    Tolerance,  \* how far ahead a stamp may be: 5 seconds
    MaxNow      \* bound: the last instant explored

ASSUME WindowAssumption    == Window \in Nat
ASSUME ToleranceAssumption == Tolerance \in Nat
ASSUME MaxNowAssumption    == MaxNow \in Nat

VARIABLES
    now,        \* time.time()
    stampOf,    \* the stamp a message carries, or NoStamp
    cache,      \* _nonces: items [nonce, ts]
    holder,     \* the thread that holds _lock, or NoThread
    pc,         \* per thread: where in check_nonce it is
    arg,        \* per thread: the nonce it checks
    callTime,   \* per thread: current_time of check_nonce
    ts,         \* per thread: the timestamp it checks
    verdict,    \* per thread: the reason check_nonce returned last
    lastTs      \* history: the timestamp a nonce was last accepted with

vars == <<now, stampOf, cache, holder, pc, arg, callTime, ts, verdict, lastTs>>

NoThread == "none"
NoStamp  == -1
Stamps   == 0 .. (MaxNow + Tolerance + 1)

ASSUME ThreadsAssumption == NoThread \notin Threads

Item     == [nonce : Nonces, ts : Nat]
Steps    == {"idle", "waiting", "evicting", "checking", "recording"}
Verdicts == {"none", "accepted", "replay", "expired", "inFuture"}

Init ==
    /\ now = 0
    /\ stampOf \in [Nonces -> Stamps \cup {NoStamp}]
    /\ cache = {}
    /\ holder = NoThread
    /\ pc = [t \in Threads |-> "idle"]
    /\ arg \in [Threads -> Nonces]
    /\ callTime = [t \in Threads |-> 0]
    /\ ts = [t \in Threads |-> 0]
    /\ verdict = [t \in Threads |-> "none"]
    /\ lastTs = [n \in Nonces |-> NoStamp]

Tick ==
    /\ now < MaxNow
    /\ now' = now + 1
    /\ UNCHANGED <<stampOf, cache, holder, pc, arg, callTime, ts, verdict, lastTs>>

-----------------------------------------------------------------------------
(* check_nonce.                                                            *)

(* Mutant of Call: a missing timestamp is used as it is. *)
CallWithoutDefault(t) ==
    /\ pc[t] = "idle"
    /\ \E n \in Nonces :
          /\ arg' = [arg EXCEPT ![t] = n]
          /\ ts' = [ts EXCEPT ![t] = stampOf[n]]
    /\ callTime' = [callTime EXCEPT ![t] = now]
    /\ pc' = [pc EXCEPT ![t] = "waiting"]
    /\ verdict' = [verdict EXCEPT ![t] = "none"]
    /\ UNCHANGED <<now, stampOf, cache, holder, lastTs>>

(* The call: the clock is read, the lock is not held. *)
Call(t) ==
    /\ pc[t] = "idle"
    /\ \E n \in Nonces :
          /\ arg' = [arg EXCEPT ![t] = n]
          /\ ts' = [ts EXCEPT ![t] = IF stampOf[n] = NoStamp THEN now ELSE stampOf[n]]
    /\ callTime' = [callTime EXCEPT ![t] = now]
    /\ pc' = [pc EXCEPT ![t] = "waiting"]
    /\ verdict' = [verdict EXCEPT ![t] = "none"]
    /\ UNCHANGED <<now, stampOf, cache, holder, lastTs>>

(* Mutant of Acquire: the block is entered without the lock. *)
AcquireNothing(t) ==
    /\ pc[t] = "waiting"
    /\ pc' = [pc EXCEPT ![t] = "evicting"]
    /\ holder' = t
    /\ UNCHANGED <<now, stampOf, cache, arg, callTime, ts, verdict, lastTs>>

Acquire(t) ==
    /\ pc[t] = "waiting"
    /\ holder = NoThread
    /\ holder' = t
    /\ pc' = [pc EXCEPT ![t] = "evicting"]
    /\ UNCHANGED <<now, stampOf, cache, arg, callTime, ts, verdict, lastTs>>

(* Mutant of Evict: <= where the code says <. *)
EvictAtTheEdge(t) ==
    /\ pc[t] = "evicting"
    /\ cache' = {item \in cache : item.ts > now - Window}
    /\ pc' = [pc EXCEPT ![t] = "checking"]
    /\ UNCHANGED <<now, stampOf, holder, arg, callTime, ts, verdict, lastTs>>

(* _evict_stale_nonces, with a clock reading of its own. *)
Evict(t) ==
    /\ pc[t] = "evicting"
    /\ cache' = {item \in cache : item.ts >= now - Window}
    /\ pc' = [pc EXCEPT ![t] = "checking"]
    /\ UNCHANGED <<now, stampOf, holder, arg, callTime, ts, verdict, lastTs>>

(* Mutant of Return: acquire and release by hand, forgotten on refusal. *)
ReturnHoldingLock(t, v) ==
    /\ pc' = [pc EXCEPT ![t] = "idle"]
    /\ verdict' = [verdict EXCEPT ![t] = v]
    /\ holder' = IF v = "accepted" THEN NoThread ELSE holder

(* Every return leaves the with block and so releases the lock. *)
Return(t, v) ==
    /\ pc' = [pc EXCEPT ![t] = "idle"]
    /\ verdict' = [verdict EXCEPT ![t] = v]
    /\ holder' = NoThread

Cached(n) == \E item \in cache : item.nonce = n
Age(t)    == callTime[t] - ts[t]

(* Steps 2 to 4: the age at the time of the call, then the cache. *)
Check(t) ==
    /\ pc[t] = "checking"
    /\ \/ Age(t) > Window /\ Return(t, "expired")
       \/ Age(t) < -Tolerance /\ Return(t, "inFuture")
       \/ /\ Age(t) \in -Tolerance .. Window
          /\ Cached(arg[t])
          /\ Return(t, "replay")
       \/ /\ Age(t) \in -Tolerance .. Window
          /\ ~Cached(arg[t])
          /\ pc' = [pc EXCEPT ![t] = "recording"]
          /\ UNCHANGED <<verdict, holder>>
    /\ UNCHANGED <<now, stampOf, cache, arg, callTime, ts, lastTs>>

(* Step 5.  _nonces is a dict: the entry replaces an older one. *)
Record(t) ==
    /\ pc[t] = "recording"
    /\ cache' = {item \in cache : item.nonce # arg[t]}
                    \cup {[nonce |-> arg[t], ts |-> ts[t]]}
    /\ lastTs' = [lastTs EXCEPT ![arg[t]] = ts[t]]
    /\ Return(t, "accepted")
    /\ UNCHANGED <<now, stampOf, arg, callTime, ts>>

-----------------------------------------------------------------------------

InsideLock(t) == Evict(t) \/ Check(t) \/ Record(t)

Next == Tick \/ \E t \in Threads : Call(t) \/ Acquire(t) \/ InsideLock(t)

Spec == Init /\ [][Next]_vars

(* A thread that holds the lock keeps running.  threading.Lock promises no *)
(* order among the threads that wait, so nothing is assumed of Acquire.    *)
FairSpec == Spec /\ \A t \in Threads : WF_vars(InsideLock(t))

-----------------------------------------------------------------------------
(* Properties.                                                             *)

TypeOK ==
    /\ now \in Nat
    /\ stampOf \in [Nonces -> Nat \cup {NoStamp}]
    /\ cache \subseteq Item
    /\ holder \in Threads \cup {NoThread}
    /\ pc \in [Threads -> Steps]
    /\ arg \in [Threads -> Nonces]
    /\ callTime \in [Threads -> Nat]
    /\ ts \in [Threads -> Nat]
    /\ verdict \in [Threads -> Verdicts]
    /\ lastTs \in [Nonces -> Nat \cup {NoStamp}]

(* One thread at a time is between taking and giving back the lock.        *)
OneInside ==
    \A t \in Threads : pc[t] \in {"evicting", "checking", "recording"} <=> holder = t

(* A nonce accepted with some timestamp is not accepted again while that   *)
(* timestamp is within the window, whatever the threads interleave.        *)
NotAcceptedTwiceInWindow ==
    [][\A t \in Threads :
          Record(t) /\ lastTs[arg[t]] # NoStamp
              => now > lastTs[arg[t]] + Window]_vars

(* Whoever holds the lock gives it back, on all four ways out.             *)
LockIsReleased == \A t \in Threads : (holder = t) ~> (holder # t)
=============================================================================
