----------------------- MODULE ReplayProtectorProofs -----------------------
(***************************************************************************)
(* The replay cache for any number of threads and nonces and any window.   *)
(*                                                                         *)
(* The lock gives OneInside; with it, "a thread about to record found its  *)
(* nonce missing" is stable, and the cache holds the last accepted         *)
(* timestamp of every nonce until the window has passed it.                *)
(***************************************************************************)
EXTENDS ReplayProtector, TLAPS

(* A thread that is about to record its nonce found it missing, and it is  *)
(* missing still.                                                          *)
StillMissing == \A t \in Threads : pc[t] = "recording" => ~Cached(arg[t])

(* What was accepted is in the cache until the window has passed it. *)
Remembered ==
    \A n \in Nonces :
        lastTs[n] # NoStamp =>
            \/ now > lastTs[n] + Window
            \/ [nonce |-> n, ts |-> lastTs[n]] \in cache

IInv == TypeOK /\ OneInside /\ StillMissing /\ Remembered

USE DEF NoThread, NoStamp

-----------------------------------------------------------------------------
LEMMA ReplayInit == Init => IInv
  BY WindowAssumption, ToleranceAssumption, MaxNowAssumption, ThreadsAssumption
     DEF Init, IInv, TypeOK, OneInside, StillMissing, Remembered, Stamps, Steps,
         Verdicts, Item

(* TypeOK and OneInside, one step per action.                              *)
LEMMA ReplayTypeStep ==
  TypeOK /\ OneInside /\ [Next]_vars => TypeOK' /\ OneInside'
<1> SUFFICES ASSUME TypeOK, OneInside, [Next]_vars
             PROVE  TypeOK' /\ OneInside'
  OBVIOUS
<1> USE ThreadsAssumption, WindowAssumption DEF TypeOK, OneInside, Steps, Verdicts
<1>1. CASE Tick
  BY <1>1 DEF Tick
<1>2. ASSUME NEW t \in Threads, Call(t)
      PROVE  TypeOK' /\ OneInside'
  BY <1>2 DEF Call
<1>3. ASSUME NEW t \in Threads, Acquire(t)
      PROVE  TypeOK' /\ OneInside'
  BY <1>3 DEF Acquire
<1>4. ASSUME NEW t \in Threads, Evict(t)
      PROVE  TypeOK' /\ OneInside'
  BY <1>4 DEF Evict
<1>5. ASSUME NEW t \in Threads, Check(t)
      PROVE  TypeOK' /\ OneInside'
  BY <1>5 DEF Check, Return
<1>6. ASSUME NEW t \in Threads, Record(t)
      PROVE  TypeOK' /\ OneInside'
  <2>1. [nonce |-> arg[t], ts |-> ts[t]] \in Item
    BY DEF Item
  <2>2. cache' \subseteq Item
    BY <1>6, <2>1 DEF Record
  <2> QED
    BY <1>6, <2>2 DEF Record, Return
<1>7. CASE UNCHANGED vars
  BY <1>7 DEF vars
<1> QED
  BY <1>1, <1>2, <1>3, <1>4, <1>5, <1>6, <1>7 DEF Next, InsideLock

(* StillMissing: only the thread inside changes the cache, and eviction    *)
(* only takes entries away.                                                *)
LEMMA StillMissingStep ==
  TypeOK /\ OneInside /\ StillMissing /\ [Next]_vars => StillMissing'
<1> SUFFICES ASSUME TypeOK, OneInside, StillMissing, [Next]_vars,
                    NEW u \in Threads, pc'[u] = "recording"
             PROVE  ~Cached(arg[u])'
  BY DEF StillMissing
<1> USE DEF TypeOK, OneInside, StillMissing, Cached
<1>1. CASE Tick
  BY <1>1 DEF Tick
<1>2. ASSUME NEW t \in Threads, Call(t)
      PROVE  ~Cached(arg[u])'
  BY <1>2 DEF Call
<1>3. ASSUME NEW t \in Threads, Acquire(t)
      PROVE  ~Cached(arg[u])'
  BY <1>3 DEF Acquire
<1>4. ASSUME NEW t \in Threads, Evict(t)
      PROVE  ~Cached(arg[u])'
  BY <1>4 DEF Evict
<1>5. ASSUME NEW t \in Threads, Check(t)
      PROVE  ~Cached(arg[u])'
  BY <1>5 DEF Check, Return
<1>6. ASSUME NEW t \in Threads, Record(t)
      PROVE  ~Cached(arg[u])'
  <2>1. u # t
    BY <1>6 DEF Record, Return
  <2>2. pc[u] = "recording" /\ pc[t] = "recording"
    BY <1>6, <2>1 DEF Record, Return
  <2> QED
    BY <2>1, <2>2
<1>7. CASE UNCHANGED vars
  BY <1>7 DEF vars
<1> QED
  BY <1>1, <1>2, <1>3, <1>4, <1>5, <1>6, <1>7 DEF Next, InsideLock

(* Remembered: eviction drops an entry only once the window has passed it. *)
LEMMA RememberedStep ==
  TypeOK /\ Remembered /\ [Next]_vars => Remembered'
<1> SUFFICES ASSUME TypeOK, Remembered, [Next]_vars,
                    NEW n \in Nonces, lastTs'[n] # NoStamp
             PROVE  \/ now' > lastTs'[n] + Window
                    \/ [nonce |-> n, ts |-> lastTs'[n]] \in cache'
  BY DEF Remembered
<1> DEFINE Goal == \/ now' > lastTs'[n] + Window
                   \/ [nonce |-> n, ts |-> lastTs'[n]] \in cache'
<1> USE WindowAssumption DEF TypeOK
<1>1. CASE Tick
  BY <1>1 DEF Tick, Remembered
<1>2. ASSUME NEW t \in Threads, Call(t) \/ Acquire(t) \/ Check(t)
      PROVE  Goal
  BY <1>2 DEF Call, Acquire, Check, Remembered
<1>3. ASSUME NEW t \in Threads, Evict(t)
      PROVE  Goal
  <2>1. UNCHANGED <<now, lastTs>>
    BY <1>3 DEF Evict
  <2>2. CASE now > lastTs[n] + Window
    BY <2>1, <2>2
  <2>3. CASE /\ [nonce |-> n, ts |-> lastTs[n]] \in cache
             /\ ~(now > lastTs[n] + Window)
    <3>1. lastTs[n] \in Nat /\ lastTs[n] >= now - Window
      BY <2>1, <2>3
    <3> QED
      BY <1>3, <2>1, <2>3, <3>1 DEF Evict
  <2> QED
    BY <2>1, <2>2, <2>3 DEF Remembered
<1>4. ASSUME NEW t \in Threads, Record(t)
      PROVE  Goal
  <2>1. CASE n = arg[t]
    BY <1>4, <2>1 DEF Record
  <2>2. CASE n # arg[t]
    <3>1. now' = now /\ lastTs'[n] = lastTs[n]
      BY <1>4, <2>2 DEF Record
    <3> QED
      BY <1>4, <2>2, <3>1 DEF Record, Remembered
  <2> QED
    BY <2>1, <2>2
<1>5. CASE UNCHANGED vars
  BY <1>5 DEF vars, Remembered
<1> QED
  BY <1>1, <1>2, <1>3, <1>4, <1>5 DEF Next, InsideLock

LEMMA ReplayInvariant == Spec => []IInv
<1>1. IInv /\ [Next]_vars => IInv'
  BY ReplayTypeStep, StillMissingStep, RememberedStep DEF IInv
<1> QED
  BY ReplayInit, <1>1, PTL DEF Spec

-----------------------------------------------------------------------------
(* The typing invariant of the replay cache.                               *)
THEOREM ReplayTypeCorrect == Spec => []TypeOK
<1>1. IInv => TypeOK
  BY DEF IInv
<1> QED
  BY ReplayInvariant, <1>1, PTL

(* The lock of check_nonce gives mutual exclusion: a thread is inside      *)
(* exactly when it is the holder.                                          *)
THEOREM ReplayOneInside == Spec => []OneInside
<1>1. IInv => OneInside
  BY DEF IInv
<1> QED
  BY ReplayInvariant, <1>1, PTL

(* check_nonce never accepts a nonce again while the timestamp it accepted *)
(* it with is within the window.                                           *)
THEOREM ReplayNotTwice == Spec => NotAcceptedTwiceInWindow
<1> DEFINE NoReplay ==
      \A t \in Threads :
          Record(t) /\ lastTs[arg[t]] # NoStamp => now > lastTs[arg[t]] + Window
<1>1. IInv => NoReplay
  <2> SUFFICES ASSUME IInv, NEW t \in Threads, Record(t), lastTs[arg[t]] # NoStamp
               PROVE  now > lastTs[arg[t]] + Window
    OBVIOUS
  <2>1. arg[t] \in Nonces /\ ~Cached(arg[t])
    BY DEF IInv, TypeOK, StillMissing, Record
  <2>2. [nonce |-> arg[t], ts |-> lastTs[arg[t]]] \notin cache
    BY <2>1 DEF Cached
  <2> QED
    BY <2>1, <2>2 DEF IInv, Remembered
<1>2. IInv /\ [Next]_vars => [NoReplay]_vars
  BY <1>1
<1>3. Spec => [][NoReplay]_vars
  BY ReplayInvariant, <1>2, PTL DEF Spec
<1> QED
  BY <1>3 DEF NotAcceptedTwiceInWindow
=============================================================================
