-------------------------- MODULE KeyManagerProofs -------------------------
(***************************************************************************)
(* Proofs about KeyManager, for any number of processes, names and key     *)
(* pairs, and processes killed anywhere.  The invariant Store says, of     *)
(* each name that no two processes worked on at a time, that the process   *)
(* working on it is alone and what it has made of the two files so far.    *)
(***************************************************************************)
EXTENDS KeyManager, TLAPS

-----------------------------------------------------------------------------
(* Types.                                                                  *)

HalfUpTo(f, half, d) == f \in {Absent, Torn} \cup {Full(k, half) : k \in 1 .. d}

Job(d) == [name : Names \cup {"none"}, pair : 0 .. d]

(* A process that works has a name, one that writes has drawn a pair, and  *)
(* only one that writes has a file open.                                   *)
Consistent(p) ==
    /\ pc[p] = "idle" <=> job[p].name = "none"
    /\ pc[p] \in {"private", "public", "finish"} => job[p].pair # 0
    /\ handle[p] # "closed" => pc[p] \in {"private", "public"}

Typed ==
    /\ TypeOK
    /\ drawn \in Nat
    /\ priv = [n \in Names |-> priv[n]]
    /\ pub = [n \in Names |-> pub[n]]
    /\ \A p \in Procs : Consistent(p)

(* Absent, torn and full files are three kinds. *)
LEMMA FileKinds ==
    /\ Absent # Torn
    /\ ~Legible(Absent) /\ ~Legible(Torn)
    /\ ~Exists(Absent) /\ Exists(Torn)
    /\ \A k, h : /\ Full(k, h) # Absent /\ Full(k, h) # Torn
                 /\ Legible(Full(k, h)) /\ Exists(Full(k, h))
                 /\ Full(k, h).pair = k
  BY DEF Absent, Torn, Full, Legible, Exists

(* A file that holds a half keeps its type when pairs are drawn. *)
LEMMA HalfMonotone ==
    ASSUME NEW f, NEW half, NEW d \in Nat, HalfUpTo(f, half, d)
    PROVE  HalfUpTo(f, half, d + 1)
<1>1. \A k \in 1 .. d : k \in 1 .. d + 1
    OBVIOUS
<1> QED
    BY <1>1 DEF HalfUpTo

(* The types in the words of this module. *)
LEMMA TypedIs ==
    Typed <=>
        /\ drawn \in Nat
        /\ priv = [n \in Names |-> priv[n]]
        /\ pub = [n \in Names |-> pub[n]]
        /\ \A n \in Names : HalfUpTo(priv[n], "private", drawn) /\ HalfUpTo(pub[n], "public", drawn)
        /\ pc \in [Procs -> Steps]
        /\ handle \in [Procs -> Handles]
        /\ job \in [Procs -> Job(drawn)]
        /\ kept \in [Names -> 0 .. drawn]
        /\ killed \subseteq Names
        /\ contended \subseteq Names
        /\ \A p \in Procs : Consistent(p)
  BY Zenon DEF Typed, TypeOK, IsHalf, HalfUpTo, Job

(* A process that works has a name of the keystore. *)
LEMMA HasName ==
    ASSUME Typed, NEW p \in Procs
    PROVE  /\ pc[p] # "idle" => job[p].name \in Names
           /\ pc[p] = "idle" => job[p].name = "none"
           /\ job[p].pair \in 0 .. drawn
           /\ pc[p] \in {"private", "public", "finish"} => job[p].pair \in 1 .. drawn
<1>1. /\ Consistent(p) /\ drawn \in Nat
      /\ job[p].name \in Names \cup {"none"} /\ job[p].pair \in 0 .. drawn
    BY TypedIs DEF Job
<1> QED
    BY <1>1 DEF Consistent

-----------------------------------------------------------------------------
(* What a step of process p that is about name n leaves alone.             *)

Effect(p, n) ==
    /\ \A q \in Procs \ {p} : pc'[q] = pc[q] /\ job'[q] = job[q]
    /\ \A q \in Procs \ {p} :
          \/ handle'[q] = handle[q]
          \/ job[q].name = n /\ handle[q] = "open" /\ handle'[q] = "unlinked"
    /\ \A m \in Names \ {n} : priv'[m] = priv[m] /\ pub'[m] = pub[m] /\ kept'[m] = kept[m]
    /\ killed' \in {killed, killed \cup {n}}
    /\ contended' \in {contended, contended \cup {n}}

(* p works on n before the step or after it. *)
About(p, n) == job[p].name \in {n, "none"} /\ job'[p].name \in {n, "none"}

(* One step of Write: the two halves of a write, and a write that reaches  *)
(* no file.                                                                *)
Wrote(p, f, g, half, next) ==
    \/ handle[p] = "closed" /\ pc'[p] = pc[p] /\ handle'[p] = "open" /\ g = Torn
    \/ /\ handle[p] = "open" /\ pc'[p] = next /\ handle'[p] = "closed"
       /\ g = Full(job[p].pair, half) \/ (Legible(f) /\ g = Torn)
    \/ handle[p] = "unlinked" /\ pc'[p] = next /\ handle'[p] = "closed" /\ g = f

(* The variables are functions, before and after. *)
Shape ==
    /\ priv = [n \in Names |-> priv[n]]
    /\ pub = [n \in Names |-> pub[n]]
    /\ pc = [p \in Procs |-> pc[p]]
    /\ handle = [p \in Procs |-> handle[p]]
    /\ job = [p \in Procs |-> job[p]]
    /\ kept = [n \in Names |-> kept[n]]

LEMMA TypedShape ==
    ASSUME Typed PROVE Shape
  BY TypedIs DEF Shape

(* The steps of generate_keypair. *)
LEMMA BeginGenerateEffect ==
    ASSUME Typed, NEW p \in Procs, BeginGenerate(p)
    PROVE  \E n \in Names :
              /\ Effect(p, n) /\ About(p, n) /\ Shape'
              /\ pc[p] = "idle" /\ pc'[p] = "private"
              /\ job'[p] = [name |-> n, pair |-> drawn + 1] /\ drawn' = drawn + 1
              /\ priv[n] = Absent /\ pub[n] = Absent
              /\ UNCHANGED <<priv, pub, handle, kept, killed>>
              /\ (\E q \in Procs : job[q].name = n) => n \in contended'
<1> USE DEF Shape
<1>1. PICK n \in Names :
          ~Exists(priv[n]) /\ ~Exists(pub[n]) /\ Begin(p, n, drawn', "private")
    BY DEF BeginGenerate
<1>2. UNCHANGED <<priv, pub, handle, kept, killed>> /\ drawn' = drawn + 1
    BY DEF BeginGenerate
<1>3. /\ pc[p] = "idle" /\ pc' = [pc EXCEPT ![p] = "private"]
      /\ job' = [job EXCEPT ![p] = [name |-> n, pair |-> drawn']]
      /\ contended' = contended \cup {m \in {n} : \E q \in Procs : job[q].name = m}
    BY <1>1 DEF Begin, GoTo
<1>4. job[p].name = "none"
    BY <1>3, HasName
<1>5. contended' \in {contended, contended \cup {n}}
    BY <1>3
<1> QED
    BY <1>1, <1>2, <1>3, <1>4, <1>5, TypedShape DEF Effect, About, Exists

LEMMA WritePrivateEffect ==
    ASSUME Typed, NEW p \in Procs, WritePrivate(p), NEW n, n = job[p].name
    PROVE  /\ Effect(p, n) /\ About(p, n) /\ Shape'
           /\ pc[p] = "private"
           /\ Wrote(p, priv[n], priv'[n], "private", "public")
           /\ UNCHANGED <<pub, job, drawn, kept, killed, contended>>
<1> USE DEF Shape
<1>1. pc[p] = "private" /\ UNCHANGED <<pub, job, drawn, kept, killed, contended>>
    BY DEF WritePrivate, history
<1>2. n \in Names
    BY <1>1, HasName
<1>3. PICK g, h, s :
          /\ priv' = [priv EXCEPT ![n] = g] \/ (UNCHANGED priv /\ g = priv[n])
          /\ handle' = [handle EXCEPT ![p] = h]
          /\ pc' = [pc EXCEPT ![p] = s]
          /\ \/ handle[p] = "closed" /\ g = Torn /\ h = "open" /\ s = pc[p]
             \/ /\ handle[p] = "open" /\ h = "closed" /\ s = "public"
                /\ g = Full(job[p].pair, "private") \/ (Legible(priv[n]) /\ g = Torn)
             \/ handle[p] = "unlinked" /\ g = priv[n] /\ h = "closed" /\ s = "public"
  <2>1. CASE handle[p] = "closed" /\ priv' = [priv EXCEPT ![n] = Torn]
                /\ handle' = [handle EXCEPT ![p] = "open"] /\ UNCHANGED pc
    <3>1. pc' = [pc EXCEPT ![p] = pc[p]]
      BY <2>1, TypedShape
    <3> QED
      BY <2>1, <3>1
  <2>2. CASE /\ handle[p] = "open" /\ handle' = [handle EXCEPT ![p] = "closed"]
             /\ pc' = [pc EXCEPT ![p] = "public"]
             /\ \/ priv' = [priv EXCEPT ![n] = Full(job[p].pair, "private")]
                \/ Legible(priv[n]) /\ priv' = [priv EXCEPT ![n] = Torn]
    BY <2>2
  <2>3. CASE /\ handle[p] = "unlinked" /\ handle' = [handle EXCEPT ![p] = "closed"]
             /\ pc' = [pc EXCEPT ![p] = "public"] /\ UNCHANGED priv
    BY <2>3
  <2>4. Write(p, priv, "private", "public")
    BY DEF WritePrivate
  <2> QED
    BY <2>1, <2>2, <2>3, <2>4 DEF Write, GoTo
<1>4. Shape'
  <2>1. priv' = [m \in Names |-> priv'[m]]
    BY <1>3, TypedShape
  <2>2. pc' = [q \in Procs |-> pc'[q]] /\ handle' = [q \in Procs |-> handle'[q]]
    BY <1>3, TypedShape
  <2> QED
    BY <1>1, <2>1, <2>2, TypedShape
<1>5. priv'[n] = g /\ handle'[p] = h /\ pc'[p] = s
    BY <1>2, <1>3, TypedShape
<1>6. Wrote(p, priv[n], priv'[n], "private", "public")
    BY <1>3, <1>5 DEF Wrote
<1> QED
    BY <1>1, <1>2, <1>3, <1>4, <1>6, TypedShape DEF Effect, About

LEMMA WritePublicEffect ==
    ASSUME Typed, NEW p \in Procs, WritePublic(p), NEW n, n = job[p].name
    PROVE  /\ Effect(p, n) /\ About(p, n) /\ Shape'
           /\ pc[p] = "public"
           /\ Wrote(p, pub[n], pub'[n], "public", "finish")
           /\ UNCHANGED <<priv, job, drawn, kept, killed, contended>>
<1> USE DEF Shape
<1>1. pc[p] = "public" /\ UNCHANGED <<priv, job, drawn, kept, killed, contended>>
    BY DEF WritePublic, history
<1>2. n \in Names
    BY <1>1, HasName
<1>3. PICK g, h, s :
          /\ pub' = [pub EXCEPT ![n] = g] \/ (UNCHANGED pub /\ g = pub[n])
          /\ handle' = [handle EXCEPT ![p] = h]
          /\ pc' = [pc EXCEPT ![p] = s]
          /\ \/ handle[p] = "closed" /\ g = Torn /\ h = "open" /\ s = pc[p]
             \/ /\ handle[p] = "open" /\ h = "closed" /\ s = "finish"
                /\ g = Full(job[p].pair, "public") \/ (Legible(pub[n]) /\ g = Torn)
             \/ handle[p] = "unlinked" /\ g = pub[n] /\ h = "closed" /\ s = "finish"
  <2>1. CASE handle[p] = "closed" /\ pub' = [pub EXCEPT ![n] = Torn]
                /\ handle' = [handle EXCEPT ![p] = "open"] /\ UNCHANGED pc
    <3>1. pc' = [pc EXCEPT ![p] = pc[p]]
      BY <2>1, TypedShape
    <3> QED
      BY <2>1, <3>1
  <2>2. CASE /\ handle[p] = "open" /\ handle' = [handle EXCEPT ![p] = "closed"]
             /\ pc' = [pc EXCEPT ![p] = "finish"]
             /\ \/ pub' = [pub EXCEPT ![n] = Full(job[p].pair, "public")]
                \/ Legible(pub[n]) /\ pub' = [pub EXCEPT ![n] = Torn]
    BY <2>2
  <2>3. CASE /\ handle[p] = "unlinked" /\ handle' = [handle EXCEPT ![p] = "closed"]
             /\ pc' = [pc EXCEPT ![p] = "finish"] /\ UNCHANGED pub
    BY <2>3
  <2>4. Write(p, pub, "public", "finish")
    BY DEF WritePublic
  <2> QED
    BY <2>1, <2>2, <2>3, <2>4 DEF Write, GoTo
<1>4. Shape'
  <2>1. pub' = [m \in Names |-> pub'[m]]
    BY <1>3, TypedShape
  <2>2. pc' = [q \in Procs |-> pc'[q]] /\ handle' = [q \in Procs |-> handle'[q]]
    BY <1>3, TypedShape
  <2> QED
    BY <1>1, <2>1, <2>2, TypedShape
<1>5. pub'[n] = g /\ handle'[p] = h /\ pc'[p] = s
    BY <1>2, <1>3, TypedShape
<1>6. Wrote(p, pub[n], pub'[n], "public", "finish")
    BY <1>3, <1>5 DEF Wrote
<1> QED
    BY <1>1, <1>2, <1>3, <1>4, <1>6, TypedShape DEF Effect, About

LEMMA FinishEffect ==
    ASSUME Typed, NEW p \in Procs, Finish(p), NEW n, n = job[p].name
    PROVE  /\ Effect(p, n) /\ About(p, n) /\ Shape'
           /\ pc[p] = "finish" /\ pc'[p] = "idle" /\ job'[p] = NoJob
           /\ kept'[n] = job[p].pair
           /\ UNCHANGED <<priv, pub, handle, drawn, killed, contended>>
<1> USE DEF Shape
<1>1. pc[p] = "finish" /\ UNCHANGED <<priv, pub, handle, drawn, killed, contended>>
    BY DEF Finish
<1>2. n \in Names
    BY <1>1, HasName
<1> QED
    BY <1>1, <1>2, TypedShape DEF Finish, End, GoTo, Effect, About, NoJob

(* The steps of delete_key. *)
LEMMA BeginDeleteEffect ==
    ASSUME Typed, NEW p \in Procs, BeginDelete(p)
    PROVE  \E n \in Names :
              /\ Effect(p, n) /\ About(p, n) /\ Shape'
              /\ pc[p] = "idle" /\ pc'[p] = "findPrivate"
              /\ job'[p] = [name |-> n, pair |-> 0]
              /\ kept'[n] = 0
              /\ UNCHANGED <<priv, pub, handle, drawn, killed>>
              /\ (\E q \in Procs : job[q].name = n) => n \in contended'
<1> USE DEF Shape
<1>1. PICK n \in Names :
          Begin(p, n, 0, "findPrivate") /\ kept' = [kept EXCEPT ![n] = 0]
    BY DEF BeginDelete
<1>2. UNCHANGED <<priv, pub, handle, drawn, killed>>
    BY DEF BeginDelete
<1>3. /\ pc[p] = "idle" /\ pc' = [pc EXCEPT ![p] = "findPrivate"]
      /\ job' = [job EXCEPT ![p] = [name |-> n, pair |-> 0]]
      /\ contended' = contended \cup {m \in {n} : \E q \in Procs : job[q].name = m}
    BY <1>1 DEF Begin, GoTo
<1>4. job[p].name = "none"
    BY <1>3, HasName
<1>5. contended' \in {contended, contended \cup {n}}
    BY <1>3
<1> QED
    BY <1>1, <1>2, <1>3, <1>4, <1>5, TypedShape DEF Effect, About

LEMMA FindPrivateEffect ==
    ASSUME Typed, NEW p \in Procs, FindPrivate(p), NEW n, n = job[p].name
    PROVE  /\ Effect(p, n) /\ About(p, n) /\ Shape'
           /\ pc[p] = "findPrivate"
           /\ \/ Exists(priv[n]) /\ pc'[p] = "unlinkPrivate"
              \/ ~Exists(priv[n]) /\ pc'[p] = "findPublic"
           /\ UNCHANGED <<priv, pub, handle, job, drawn, kept, killed, contended>>
  BY TypedShape DEF Shape, FindPrivate, GoTo, Effect, About, history

LEMMA FindPublicEffect ==
    ASSUME Typed, NEW p \in Procs, FindPublic(p), NEW n, n = job[p].name
    PROVE  /\ Effect(p, n) /\ About(p, n) /\ Shape'
           /\ pc[p] = "findPublic"
           /\ \/ Exists(pub[n]) /\ pc'[p] = "unlinkPublic" /\ job'[p] = job[p]
              \/ ~Exists(pub[n]) /\ pc'[p] = "idle" /\ job'[p] = NoJob
           /\ UNCHANGED <<priv, pub, handle, drawn, kept, killed, contended>>
  BY TypedShape DEF Shape, FindPublic, End, GoTo, Effect, About, NoJob, history

LEMMA UnlinkPrivateEffect ==
    ASSUME Typed, NEW p \in Procs, UnlinkPrivate(p), NEW n, n = job[p].name
    PROVE  /\ Effect(p, n) /\ About(p, n) /\ Shape'
           /\ pc[p] = "unlinkPrivate" /\ handle'[p] = handle[p]
           /\ \/ /\ Exists(priv[n]) /\ priv'[n] = Absent
                 /\ pc'[p] = "findPublic" /\ job'[p] = job[p]
              \/ /\ ~Exists(priv[n]) /\ priv'[n] = priv[n]
                 /\ pc'[p] = "idle" /\ job'[p] = NoJob
           /\ UNCHANGED <<pub, drawn, kept, killed, contended>>
<1> USE DEF Shape
<1>1. pc[p] = "unlinkPrivate" /\ UNCHANGED <<pub, drawn, kept, killed, contended>>
    BY DEF UnlinkPrivate, history
<1>2. n \in Names
    BY <1>1, HasName
<1>3. CASE Exists(priv[n])
  <2>1. /\ priv' = [priv EXCEPT ![n] = Absent]
        /\ handle' = [q \in Procs |->
               IF handle[q] = "open" /\ pc[q] = "private" /\ job[q].name = n
                 THEN "unlinked" ELSE handle[q]]
        /\ pc' = [pc EXCEPT ![p] = "findPublic"] /\ UNCHANGED job
    BY <1>3 DEF UnlinkPrivate, Unlink, GoTo
  <2>2. priv'[n] = Absent /\ pc'[p] = "findPublic" /\ handle'[p] = handle[p]
    BY <1>1, <1>2, <2>1, TypedShape
  <2>3. Effect(p, n)
    BY <1>1, <1>2, <2>1, TypedShape DEF Effect
  <2>4. Shape'
    BY <1>1, <2>1, TypedShape
  <2> QED
    BY <1>1, <1>3, <2>1, <2>2, <2>3, <2>4 DEF About
<1>4. CASE ~Exists(priv[n])
  <2>1. /\ UNCHANGED <<priv, handle>>
        /\ pc' = [pc EXCEPT ![p] = "idle"] /\ job' = [job EXCEPT ![p] = NoJob]
    BY <1>4 DEF UnlinkPrivate, End, GoTo
  <2> QED
    BY <1>1, <1>2, <1>4, <2>1, TypedShape DEF Effect, About, NoJob
<1> QED
    BY <1>3, <1>4

LEMMA UnlinkPublicEffect ==
    ASSUME Typed, NEW p \in Procs, UnlinkPublic(p), NEW n, n = job[p].name
    PROVE  /\ Effect(p, n) /\ About(p, n) /\ Shape'
           /\ pc[p] = "unlinkPublic" /\ handle'[p] = handle[p]
           /\ pub'[n] = Absent
           /\ pc'[p] = "idle" /\ job'[p] = NoJob
           /\ UNCHANGED <<priv, drawn, kept, killed, contended>>
<1> USE DEF Shape
<1>1. /\ pc[p] = "unlinkPublic" /\ End(p)
      /\ UNCHANGED <<priv, drawn, kept, killed, contended>>
    BY DEF UnlinkPublic, history
<1>2. n \in Names
    BY <1>1, HasName
<1>3. pc' = [pc EXCEPT ![p] = "idle"] /\ job' = [job EXCEPT ![p] = NoJob]
    BY <1>1 DEF End, GoTo
<1>4. pc'[p] = "idle" /\ job'[p] = NoJob
    BY <1>3, TypedShape
<1>5. CASE Exists(pub[n])
  <2>1. /\ pub' = [pub EXCEPT ![n] = Absent]
        /\ handle' = [q \in Procs |->
               IF handle[q] = "open" /\ pc[q] = "public" /\ job[q].name = n
                 THEN "unlinked" ELSE handle[q]]
    BY <1>5 DEF UnlinkPublic, Unlink
  <2>2. pub'[n] = Absent /\ handle'[p] = handle[p]
    BY <1>1, <1>2, <2>1, TypedShape
  <2>3. Effect(p, n)
    BY <1>1, <1>2, <1>3, <2>1, TypedShape DEF Effect
  <2>4. Shape'
    BY <1>1, <1>3, <2>1, TypedShape
  <2> QED
    BY <1>1, <1>4, <2>2, <2>3, <2>4 DEF About, NoJob
<1>6. CASE ~Exists(pub[n])
  <2>1. UNCHANGED <<pub, handle>> /\ pub[n] = Absent
    BY <1>6 DEF UnlinkPublic, Exists
  <2> QED
    BY <1>1, <1>2, <1>3, <1>4, <2>1, TypedShape DEF Effect, About, NoJob
<1> QED
    BY <1>5, <1>6

LEMMA InterruptEffect ==
    ASSUME Typed, NEW p \in Procs, Interrupt(p), NEW n, n = job[p].name
    PROVE  /\ Effect(p, n) /\ About(p, n) /\ Shape'
           /\ n \in Names /\ n \in killed'
           /\ handle'[p] = "closed" /\ pc'[p] = "idle" /\ job'[p] = NoJob
           /\ UNCHANGED <<priv, pub, drawn, kept, contended>>
<1> USE DEF Shape
<1>1. n \in Names
    BY HasName DEF Interrupt
<1> QED
    BY <1>1, TypedShape DEF Interrupt, End, GoTo, Effect, About, NoJob

-----------------------------------------------------------------------------
(* Type correctness.                                                       *)

(* The steps of Next, one by one. *)
LEMMA Actions ==
    ASSUME Next
    PROVE  \E p \in Procs :
              \/ BeginGenerate(p) \/ WritePrivate(p) \/ WritePublic(p) \/ Finish(p)
              \/ BeginDelete(p) \/ FindPrivate(p) \/ UnlinkPrivate(p)
              \/ FindPublic(p) \/ UnlinkPublic(p) \/ Interrupt(p)
  BY DEF Next, GenerateKeypair, DeleteKey

LEMMA TypedInit ==
    ASSUME Init PROVE Typed
<1>1. /\ priv = [n \in Names |-> priv[n]]
      /\ pub = [n \in Names |-> pub[n]]
      /\ drawn \in Nat
    BY DEF Init
<1>2. \A n \in Names : HalfUpTo(priv[n], "private", drawn) /\ HalfUpTo(pub[n], "public", drawn)
    BY DEF Init, HalfUpTo
<1>3. /\ pc \in [Procs -> Steps] /\ handle \in [Procs -> Handles]
      /\ kept \in [Names -> 0 .. drawn]
      /\ killed \subseteq Names /\ contended \subseteq Names
    BY DEF Init, Steps, Handles
<1>4. NoJob \in Job(0)
    BY DEF NoJob, Job
<1>5. job \in [Procs -> Job(drawn)]
    BY <1>4, Zenon DEF Init
<1>6. \A p \in Procs : Consistent(p)
    BY DEF Init, NoJob, Consistent
<1> QED
    BY <1>1, <1>2, <1>3, <1>5, <1>6, TypedIs

(* A step about n keeps the types when it keeps those of n and of p. *)
LEMMA TypedFrom ==
    ASSUME Typed, Shape', NEW p \in Procs, NEW n \in Names, Effect(p, n),
           drawn' \in {drawn, drawn + 1},
           HalfUpTo(priv'[n], "private", drawn'), HalfUpTo(pub'[n], "public", drawn'),
           pc'[p] \in Steps, handle'[p] \in Handles,
           job'[p] \in Job(drawn'), kept'[n] \in 0 .. drawn',
           Consistent(p)'
    PROVE  Typed'
<1>1. drawn \in Nat /\ drawn' \in Nat
    BY TypedIs
<1>2. \A f, half : HalfUpTo(f, half, drawn) => HalfUpTo(f, half, drawn')
    BY <1>1, HalfMonotone
<1>3. \A m \in Names :
          HalfUpTo(priv'[m], "private", drawn') /\ HalfUpTo(pub'[m], "public", drawn')
  <2>1. \A m \in Names : HalfUpTo(priv[m], "private", drawn) /\ HalfUpTo(pub[m], "public", drawn)
    BY TypedIs
  <2> QED
    BY <1>2, <2>1, Zenon DEF Effect
<1>4. Job(drawn) \subseteq Job(drawn') /\ 0 .. drawn \subseteq 0 .. drawn'
    BY <1>1 DEF Job
<1>5. \A q \in Procs : pc'[q] \in Steps
    BY TypedIs DEF Effect
<1>6. \A q \in Procs : handle'[q] \in Handles
    BY TypedIs DEF Effect, Handles
<1>7. \A q \in Procs : job'[q] \in Job(drawn')
    BY <1>4, TypedIs DEF Effect
<1>8. \A m \in Names : kept'[m] \in 0 .. drawn'
    BY <1>4, TypedIs DEF Effect
<1>9. killed' \subseteq Names /\ contended' \subseteq Names
    BY TypedIs DEF Effect
<1>10. \A q \in Procs : Consistent(q)'
  <2> TAKE q \in Procs
  <2>1. CASE q # p
    <3>1. Consistent(q)
      BY TypedIs
    <3> QED
      BY <2>1, <3>1 DEF Effect, Consistent
  <2> QED
    BY <2>1
<1>11. /\ pc' \in [Procs -> Steps] /\ handle' \in [Procs -> Handles]
       /\ job' \in [Procs -> Job(drawn')] /\ kept' \in [Names -> 0 .. drawn']
    BY <1>5, <1>6, <1>7, <1>8, Zenon DEF Shape
<1>12. priv' = [m \in Names |-> priv'[m]] /\ pub' = [m \in Names |-> pub'[m]]
    BY DEF Shape
<1> QED
    BY <1>1, <1>3, <1>9, <1>10, <1>11, <1>12, Zenon DEF Typed, TypeOK, IsHalf, HalfUpTo, Job

(* What stays of n and p under a step that writes neither. *)
LEMMA TypedHere ==
    ASSUME Typed, NEW n \in Names, NEW p \in Procs
    PROVE  /\ drawn \in Nat
           /\ HalfUpTo(priv[n], "private", drawn) /\ HalfUpTo(pub[n], "public", drawn)
           /\ pc[p] \in Steps /\ handle[p] \in Handles /\ job[p] \in Job(drawn)
           /\ kept[n] \in 0 .. drawn /\ Consistent(p)
  BY TypedIs

(* What a write leaves in the file is a half of a drawn pair or torn. *)
LEMMA WroteHalf ==
    ASSUME NEW p, NEW f, NEW g, NEW half, NEW next, NEW d,
           Wrote(p, f, g, half, next), HalfUpTo(f, half, d), job[p].pair \in 1 .. d
    PROVE  HalfUpTo(g, half, d)
  BY DEF Wrote, HalfUpTo

LEMMA TypedStep ==
    ASSUME Typed, [Next]_vars PROVE Typed'
<1> USE DEF Steps, Handles
<1>1. CASE UNCHANGED vars
  <2>1. UNCHANGED <<priv, pub, pc, handle, job, drawn, kept, killed, contended>>
    BY <1>1 DEF vars
  <2> QED
    BY <2>1, Zenon DEF Typed, TypeOK, IsHalf, Consistent
<1>2. ASSUME NEW p \in Procs, BeginGenerate(p) PROVE Typed'
  <2>1. PICK n \in Names :
            /\ Effect(p, n) /\ Shape' /\ pc[p] = "idle" /\ pc'[p] = "private"
            /\ job'[p] = [name |-> n, pair |-> drawn + 1] /\ drawn' = drawn + 1
            /\ UNCHANGED <<priv, pub, handle, kept, killed>>
    BY <1>2, BeginGenerateEffect
  <2>2. /\ HalfUpTo(priv'[n], "private", drawn') /\ HalfUpTo(pub'[n], "public", drawn')
    BY <2>1, TypedHere, HalfMonotone
  <2>3. drawn \in Nat /\ kept'[n] \in 0 .. drawn' /\ drawn' # 0
    BY <2>1, TypedHere
  <2>4. job'[p].name = n /\ job'[p].pair = drawn' /\ job'[p] \in Job(drawn')
    BY <2>1, <2>3 DEF Job
  <2>5. handle'[p] = "closed"
    BY <2>1, TypedHere DEF Consistent
  <2>6. Consistent(p)'
    BY <2>1, <2>3, <2>4, <2>5, NamesAssumption DEF Consistent
  <2>7. pc'[p] \in Steps /\ handle'[p] \in Handles /\ drawn' \in {drawn, drawn + 1}
    BY <2>1, <2>5
  <2> HIDE DEF Steps, Handles
  <2> QED
    BY <2>1, <2>2, <2>3, <2>4, <2>6, <2>7, TypedFrom
<1>3. ASSUME NEW p \in Procs, BeginDelete(p) PROVE Typed'
  <2>1. PICK n \in Names :
            /\ Effect(p, n) /\ Shape' /\ pc[p] = "idle" /\ pc'[p] = "findPrivate"
            /\ job'[p] = [name |-> n, pair |-> 0] /\ kept'[n] = 0
            /\ UNCHANGED <<priv, pub, handle, drawn, killed>>
    BY <1>3, BeginDeleteEffect
  <2>2. /\ HalfUpTo(priv'[n], "private", drawn') /\ HalfUpTo(pub'[n], "public", drawn')
    BY <2>1, TypedHere
  <2>3. drawn \in Nat /\ kept'[n] \in 0 .. drawn'
    BY <2>1, TypedHere
  <2>4. job'[p].name = n /\ job'[p] \in Job(drawn')
    BY <2>1, <2>3 DEF Job
  <2>5. handle'[p] = "closed"
    BY <2>1, TypedHere DEF Consistent
  <2>6. Consistent(p)'
    BY <2>1, <2>4, <2>5, NamesAssumption DEF Consistent
  <2>7. pc'[p] \in Steps /\ handle'[p] \in Handles /\ drawn' \in {drawn, drawn + 1}
    BY <2>1, <2>5
  <2> HIDE DEF Steps, Handles
  <2> QED
    BY <2>1, <2>2, <2>3, <2>4, <2>6, <2>7, TypedFrom
<1>4. ASSUME NEW p \in Procs, WritePrivate(p) PROVE Typed'
  <2> DEFINE n == job[p].name
  <2>1. /\ Effect(p, n) /\ Shape' /\ pc[p] = "private"
        /\ Wrote(p, priv[n], priv'[n], "private", "public")
        /\ UNCHANGED <<pub, job, drawn, kept, killed, contended>>
    BY <1>4, WritePrivateEffect
  <2>2. n \in Names /\ job[p].pair \in 1 .. drawn
    BY <2>1, HasName
  <2>3. /\ HalfUpTo(priv'[n], "private", drawn') /\ HalfUpTo(pub'[n], "public", drawn')
    BY <2>1, <2>2, TypedHere, WroteHalf
  <2>4. kept'[n] \in 0 .. drawn' /\ job'[p] \in Job(drawn')
    BY <2>1, <2>2, TypedHere
  <2>5. /\ pc'[p] \in {"private", "public"} /\ handle'[p] \in {"open", "closed"}
    BY <2>1 DEF Wrote
  <2>6. Consistent(p)'
    BY <2>1, <2>5, TypedHere, <2>2 DEF Consistent
  <2>7. pc'[p] \in Steps /\ handle'[p] \in Handles /\ drawn' \in {drawn, drawn + 1}
    BY <2>1, <2>5
  <2> HIDE DEF n, Steps, Handles
  <2> QED
    BY <2>1, <2>2, <2>3, <2>4, <2>6, <2>7, TypedFrom
<1>5. ASSUME NEW p \in Procs, WritePublic(p) PROVE Typed'
  <2> DEFINE n == job[p].name
  <2>1. /\ Effect(p, n) /\ Shape' /\ pc[p] = "public"
        /\ Wrote(p, pub[n], pub'[n], "public", "finish")
        /\ UNCHANGED <<priv, job, drawn, kept, killed, contended>>
    BY <1>5, WritePublicEffect
  <2>2. n \in Names /\ job[p].pair \in 1 .. drawn
    BY <2>1, HasName
  <2>3. /\ HalfUpTo(priv'[n], "private", drawn') /\ HalfUpTo(pub'[n], "public", drawn')
    BY <2>1, <2>2, TypedHere, WroteHalf
  <2>4. kept'[n] \in 0 .. drawn' /\ job'[p] \in Job(drawn')
    BY <2>1, <2>2, TypedHere
  <2>5. \/ pc'[p] = "public" /\ handle'[p] = "open"
        \/ pc'[p] = "finish" /\ handle'[p] = "closed"
    BY <2>1 DEF Wrote
  <2>6. Consistent(p)'
    BY <2>1, <2>5, TypedHere, <2>2 DEF Consistent
  <2>7. pc'[p] \in Steps /\ handle'[p] \in Handles /\ drawn' \in {drawn, drawn + 1}
    BY <2>1, <2>5
  <2> HIDE DEF n, Steps, Handles
  <2> QED
    BY <2>1, <2>2, <2>3, <2>4, <2>6, <2>7, TypedFrom
<1>6. ASSUME NEW p \in Procs, NEW n \in Names, Effect(p, n), Shape',
             pc[p] # "idle", handle[p] = "closed", handle'[p] = "closed",
             UNCHANGED <<drawn>>,
             priv'[n] \in {priv[n], Absent}, pub'[n] \in {pub[n], Absent},
             kept'[n] \in {kept[n], job[p].pair},
             \/ pc'[p] \in {"unlinkPrivate", "findPublic", "unlinkPublic"} /\ job'[p] = job[p]
             \/ pc'[p] = "idle" /\ job'[p] = NoJob
      PROVE  Typed'
  <2>1. /\ HalfUpTo(priv'[n], "private", drawn') /\ HalfUpTo(pub'[n], "public", drawn')
    BY <1>6, TypedHere DEF HalfUpTo
  <2>2. kept'[n] \in 0 .. drawn'
    BY <1>6, TypedHere, HasName
  <2>3. NoJob \in Job(drawn) /\ NoJob.name = "none"
    BY TypedHere DEF NoJob, Job
  <2>4. job'[p] \in Job(drawn')
    BY <1>6, <2>3, TypedHere
  <2>5. Consistent(p)'
    BY <1>6, <2>3, TypedHere DEF Consistent
  <2>6. pc'[p] \in Steps /\ handle'[p] \in Handles /\ drawn' \in {drawn, drawn + 1}
    BY <1>6
  <2> HIDE DEF Steps, Handles
  <2> QED
    BY <1>6, <2>1, <2>2, <2>4, <2>5, <2>6, TypedFrom
<1>7. ASSUME NEW p \in Procs,
             \/ Finish(p) \/ FindPrivate(p) \/ UnlinkPrivate(p)
             \/ FindPublic(p) \/ UnlinkPublic(p) \/ Interrupt(p)
      PROVE  Typed'
  <2> DEFINE n == job[p].name
  <2>1. /\ pc[p] # "idle"
        /\ \/ pc[p] \in {"finish", "findPrivate", "unlinkPrivate", "findPublic", "unlinkPublic"}
           \/ Interrupt(p)
    BY <1>7 DEF Finish, FindPrivate, UnlinkPrivate, FindPublic, UnlinkPublic, Interrupt
  <2>2. n \in Names
    BY <2>1, HasName
  <2> HIDE DEF n
  <2>3. n = job[p].name
    BY DEF n
  <2>4. CASE Interrupt(p)
    <3>1. /\ Effect(p, n) /\ Shape' /\ handle'[p] = "closed" /\ pc'[p] = "idle"
          /\ job'[p] = NoJob /\ UNCHANGED <<priv, pub, drawn, kept, contended>>
      BY <2>3, <2>4, InterruptEffect
    <3>2. NoJob \in Job(drawn) /\ NoJob.name = "none"
      BY <2>2, TypedHere DEF NoJob, Job
    <3>3. Consistent(p)'
      BY <3>1, <3>2 DEF Consistent
    <3>4. /\ HalfUpTo(priv'[n], "private", drawn') /\ HalfUpTo(pub'[n], "public", drawn')
          /\ kept'[n] \in 0 .. drawn' /\ job'[p] \in Job(drawn')
      BY <2>2, <3>1, <3>2, TypedHere
    <3>5. pc'[p] \in Steps /\ handle'[p] \in Handles /\ drawn' \in {drawn, drawn + 1}
      BY <3>1
    <3> HIDE DEF Steps, Handles
    <3> QED
      BY <2>2, <3>1, <3>3, <3>4, <3>5, TypedFrom
  <2>5. CASE ~Interrupt(p)
    <3>1. handle[p] = "closed"
      BY <2>1, <2>2, <2>5, TypedHere DEF Consistent
    <3>2. CASE Finish(p)
      BY <1>6, <2>1, <2>2, <2>3, <3>1, <3>2, FinishEffect
    <3>3. CASE FindPrivate(p)
      BY <1>6, <2>1, <2>2, <2>3, <3>1, <3>3, FindPrivateEffect
    <3>4. CASE UnlinkPrivate(p)
      BY <1>6, <2>1, <2>2, <2>3, <3>1, <3>4, UnlinkPrivateEffect
    <3>5. CASE FindPublic(p)
      BY <1>6, <2>1, <2>2, <2>3, <3>1, <3>5, FindPublicEffect
    <3>6. CASE UnlinkPublic(p)
      BY <1>6, <2>1, <2>2, <2>3, <3>1, <3>6, UnlinkPublicEffect
    <3> QED
      BY <1>7, <2>5, <3>2, <3>3, <3>4, <3>5, <3>6
  <2> QED
    BY <2>4, <2>5
<1>8. CASE Next
  BY <1>2, <1>3, <1>4, <1>5, <1>7, <1>8, Actions
<1> QED
    BY <1>1, <1>8

(* Every file is absent, torn or a half of a drawn pair, and the private    *)
(* halves are in the .priv files.                                          *)
THEOREM KeyTypeCorrect == Spec => []TypeOK
<1>1. Init => Typed
    BY TypedInit
<1>2. Typed /\ [Next]_vars => Typed'
    BY TypedStep
<1>3. Typed => TypeOK
    BY DEF Typed
<1> QED
    BY <1>1, <1>2, <1>3, PTL DEF Spec

-----------------------------------------------------------------------------
(* What the process that works on a name has made of its files.            *)

Alone(n) == \A p, q \in Procs : job[p].name = n /\ job[q].name = n => p = q

Stage(p, n) ==
    /\ handle[p] # "unlinked"
    /\ kept[n] = 0
    /\ pc[p] = "private" =>
          /\ pub[n] = Absent
          /\ handle[p] = "closed" => priv[n] = Absent
          /\ handle[p] = "open" => priv[n] = Torn
    /\ pc[p] = "public" =>
          /\ priv[n] = Full(job[p].pair, "private")
          /\ handle[p] = "closed" => pub[n] = Absent
          /\ handle[p] = "open" => pub[n] = Torn
    /\ pc[p] = "finish" =>
          priv[n] = Full(job[p].pair, "private") /\ pub[n] = Full(job[p].pair, "public")
    /\ pc[p] = "unlinkPrivate" => Exists(priv[n])
    /\ pc[p] \in {"findPublic", "unlinkPublic"} => ~Exists(priv[n])

Match(n) == Legible(priv[n]) /\ Legible(pub[n]) => priv[n].pair = pub[n].pair
Kept(n)  == kept[n] # 0 =>
                priv[n] = Full(kept[n], "private") /\ pub[n] = Full(kept[n], "public")
Whole(n) == \/ ~Exists(priv[n]) /\ ~Exists(pub[n])
            \/ Legible(priv[n]) /\ Legible(pub[n])
Free(n)  == \A p \in Procs : job[p].name # n

StoreAt(n) ==
    n \notin contended =>
        /\ Alone(n)
        /\ \A p \in Procs : job[p].name = n => Stage(p, n)
        /\ Match(n)
        /\ Kept(n)
        /\ n \notin killed /\ Free(n) => Whole(n)

Store == \A n \in Names : StoreAt(n)

(* A step about another name keeps it. *)
LEMMA StoreElsewhere ==
    ASSUME NEW p \in Procs, NEW n, NEW m \in Names, m # n,
           Effect(p, n), About(p, n), StoreAt(m)
    PROVE  StoreAt(m)'
<1>1. m # "none"
    BY NamesAssumption
<1>2. /\ job[p].name # m /\ job'[p].name # m
    BY <1>1 DEF About
<1>3. /\ priv'[m] = priv[m] /\ pub'[m] = pub[m] /\ kept'[m] = kept[m]
      /\ m \in contended => m \in contended'
      /\ m \in killed => m \in killed'
    BY DEF Effect
<1>4. \A q \in Procs : job'[q].name = m <=> job[q].name = m
    BY <1>2 DEF Effect
<1>5. ASSUME NEW q \in Procs, job[q].name = m
      PROVE  pc'[q] = pc[q] /\ handle'[q] = handle[q] /\ job'[q] = job[q]
    BY <1>2, <1>5 DEF Effect
<1>6. CASE m \in contended
    BY <1>3, <1>6 DEF StoreAt
<1>7. CASE m \notin contended
  <2>1. Alone(m)' /\ (Free(m)' <=> Free(m))
    BY <1>4, <1>7 DEF StoreAt, Alone, Free
  <2>2. ASSUME NEW q \in Procs, job'[q].name = m PROVE Stage(q, m)'
    <3>1. Stage(q, m)
      BY <1>4, <1>7, <2>2 DEF StoreAt
    <3> QED
      BY <1>3, <1>4, <1>5, <2>2, <3>1 DEF Stage
  <2>3. Match(m)' /\ Kept(m)'
    BY <1>3, <1>7 DEF StoreAt, Match, Kept
  <2>4. m \notin killed' /\ Free(m)' => Whole(m)'
    BY <1>3, <1>7, <2>1 DEF StoreAt, Whole
  <2> QED
    BY <2>1, <2>2, <2>3, <2>4 DEF StoreAt
<1> QED
    BY <1>6, <1>7

(* The process of a step about n is the only one on n. *)
LEMMA OnlyOne ==
    ASSUME NEW p \in Procs, NEW n, Effect(p, n), StoreAt(n), n \notin contended',
           job[p].name = n
    PROVE  /\ n \notin contended /\ Stage(p, n) /\ Match(n) /\ Kept(n)
           /\ \A q \in Procs \ {p} : job[q].name # n
  BY DEF Effect, StoreAt, Alone

(* A step about n keeps StoreAt(n) when its process is alone on n and       *)
(* keeps what is said of it.                                               *)
LEMMA StoreHere ==
    ASSUME NEW p \in Procs, NEW n, Effect(p, n),
           \A q \in Procs \ {p} : job[q].name # n,
           job'[p].name = n => Stage(p, n)',
           Match(n)', Kept(n)',
           n \notin killed' /\ job'[p].name # n => Whole(n)'
    PROVE  StoreAt(n)'
<1>1. \A q \in Procs \ {p} : job'[q].name # n
    BY DEF Effect
<1> QED
    BY <1>1 DEF StoreAt, Alone, Free

-----------------------------------------------------------------------------
(* Each action keeps StoreAt of its own name.                              *)

LEMMA StoreBegin ==
    ASSUME Typed, NEW p \in Procs, NEW n \in Names, StoreAt(n), Effect(p, n),
           pc[p] = "idle", pc'[p] \in {"private", "findPrivate"}, job'[p].name = n,
           (\E q \in Procs : job[q].name = n) => n \in contended',
           pc'[p] = "private" => priv[n] = Absent /\ pub[n] = Absent /\ kept'[n] = kept[n],
           pc'[p] = "findPrivate" => kept'[n] = 0,
           UNCHANGED <<priv, pub, handle>>
    PROVE  StoreAt(n)'
<1>1. CASE n \in contended'
    BY <1>1 DEF StoreAt
<1>2. CASE n \notin contended'
  <2>1. n \notin contended /\ Match(n) /\ Kept(n) /\ \A q \in Procs : job[q].name # n
    BY <1>2 DEF StoreAt, Effect
  <2>2. handle'[p] = "closed"
    BY TypedHere DEF Consistent
  <2>3. kept'[n] = 0
    BY <2>1, FileKinds DEF Kept
  <2>4. Stage(p, n)'
    BY <2>2, <2>3 DEF Stage
  <2>5. Match(n)' /\ Kept(n)'
    BY <2>1, <2>3 DEF Match, Kept
  <2> QED
    BY <2>1, <2>4, <2>5, StoreHere
<1> QED
    BY <1>1, <1>2

LEMMA StoreWritePrivate ==
    ASSUME Typed, NEW p \in Procs, WritePrivate(p), NEW n, n = job[p].name, StoreAt(n)
    PROVE  StoreAt(n)'
<1>1. CASE n \in contended'
    BY <1>1 DEF StoreAt
<1>2. CASE n \notin contended'
  <2>1. /\ Effect(p, n) /\ pc[p] = "private"
        /\ Wrote(p, priv[n], priv'[n], "private", "public")
        /\ UNCHANGED <<pub, job, drawn, kept, killed, contended>>
    BY WritePrivateEffect
  <2>2. /\ Stage(p, n) /\ Match(n) /\ Kept(n)
        /\ \A q \in Procs \ {p} : job[q].name # n
    BY <1>2, <2>1, OnlyOne
  <2>3. kept'[n] = 0 /\ pub'[n] = Absent /\ ~Legible(pub'[n])
    BY <2>1, <2>2, FileKinds DEF Stage
  <2>4. \/ pc'[p] = "private" /\ handle'[p] = "open" /\ priv'[n] = Torn
        \/ /\ pc'[p] = "public" /\ handle'[p] = "closed"
           /\ priv'[n] = Full(job'[p].pair, "private")
    BY <2>1, <2>2, FileKinds DEF Stage, Wrote
  <2>5. Stage(p, n)'
    BY <2>3, <2>4 DEF Stage
  <2>6. Match(n)' /\ Kept(n)' /\ job'[p].name = n
    BY <2>1, <2>3 DEF Match, Kept
  <2> QED
    BY <2>1, <2>2, <2>5, <2>6, StoreHere
<1> QED
    BY <1>1, <1>2

LEMMA StoreWritePublic ==
    ASSUME Typed, NEW p \in Procs, WritePublic(p), NEW n, n = job[p].name, StoreAt(n)
    PROVE  StoreAt(n)'
<1>1. CASE n \in contended'
    BY <1>1 DEF StoreAt
<1>2. CASE n \notin contended'
  <2>1. /\ Effect(p, n) /\ pc[p] = "public"
        /\ Wrote(p, pub[n], pub'[n], "public", "finish")
        /\ UNCHANGED <<priv, job, drawn, kept, killed, contended>>
    BY WritePublicEffect
  <2>2. /\ Stage(p, n) /\ Match(n) /\ Kept(n)
        /\ \A q \in Procs \ {p} : job[q].name # n
    BY <1>2, <2>1, OnlyOne
  <2>3. kept'[n] = 0 /\ priv'[n] = Full(job'[p].pair, "private")
    BY <2>1, <2>2 DEF Stage
  <2>4. \/ pc'[p] = "public" /\ handle'[p] = "open" /\ pub'[n] = Torn
        \/ /\ pc'[p] = "finish" /\ handle'[p] = "closed"
           /\ pub'[n] = Full(job'[p].pair, "public")
    BY <2>1, <2>2, FileKinds DEF Stage, Wrote
  <2>5. Stage(p, n)'
    BY <2>3, <2>4 DEF Stage
  <2>6. Match(n)' /\ Kept(n)' /\ job'[p].name = n
    BY <2>1, <2>3, <2>4, FileKinds DEF Match, Kept
  <2> QED
    BY <2>1, <2>2, <2>5, <2>6, StoreHere
<1> QED
    BY <1>1, <1>2

LEMMA StoreFinish ==
    ASSUME Typed, NEW p \in Procs, Finish(p), NEW n, n = job[p].name, StoreAt(n)
    PROVE  StoreAt(n)'
<1>1. CASE n \in contended'
    BY <1>1 DEF StoreAt
<1>2. CASE n \notin contended'
  <2>1. /\ Effect(p, n) /\ pc[p] = "finish" /\ job'[p] = NoJob
        /\ kept'[n] = job[p].pair
        /\ UNCHANGED <<priv, pub, handle, drawn, killed, contended>>
    BY FinishEffect
  <2>2. /\ Stage(p, n) /\ Match(n)
        /\ \A q \in Procs \ {p} : job[q].name # n
    BY <1>2, <2>1, OnlyOne
  <2>3. /\ priv'[n] = Full(kept'[n], "private") /\ pub'[n] = Full(kept'[n], "public")
    BY <2>1, <2>2 DEF Stage
  <2>4. Match(n)' /\ Kept(n)' /\ Whole(n)'
    BY <2>3, FileKinds DEF Match, Kept, Whole
  <2>5. n # "none"
    BY <2>1, HasName, NamesAssumption
  <2>6. job'[p].name # n
    BY <2>1, <2>5 DEF NoJob
  <2> QED
    BY <2>1, <2>2, <2>4, <2>6, StoreHere
<1> QED
    BY <1>1, <1>2

LEMMA StoreDelete ==
    ASSUME Typed, NEW p \in Procs, NEW n, n = job[p].name, StoreAt(n),
           FindPrivate(p) \/ UnlinkPrivate(p) \/ FindPublic(p) \/ UnlinkPublic(p)
    PROVE  StoreAt(n)'
<1>1. CASE n \in contended'
    BY <1>1 DEF StoreAt
<1>2. CASE n \notin contended'
  <2>1. /\ Effect(p, n) /\ handle'[p] = handle[p]
        /\ pc[p] \in {"findPrivate", "unlinkPrivate", "findPublic", "unlinkPublic"}
        /\ UNCHANGED <<drawn, kept, killed, contended>>
    <3>1. CASE FindPrivate(p)
      BY <3>1, FindPrivateEffect
    <3>2. CASE UnlinkPrivate(p)
      BY <3>2, UnlinkPrivateEffect
    <3>3. CASE FindPublic(p)
      BY <3>3, FindPublicEffect
    <3>4. CASE UnlinkPublic(p)
      BY <3>4, UnlinkPublicEffect
    <3> QED
      BY <3>1, <3>2, <3>3, <3>4
  <2>2. /\ Stage(p, n) /\ Match(n) /\ Kept(n)
        /\ \A q \in Procs \ {p} : job[q].name # n
    BY <1>2, <2>1, OnlyOne
  <2>3. handle[p] = "closed" /\ n \in Names /\ n # "none"
    BY <2>1, HasName, TypedHere, NamesAssumption DEF Consistent
  <2>4. kept'[n] = 0 /\ Kept(n)'
    BY <2>1, <2>2 DEF Stage, Kept
  <2>5. /\ \/ job'[p] = job[p] /\ Stage(p, n)'
           \/ job'[p] = NoJob /\ Whole(n)'
        /\ Match(n)'
    <3>1. CASE FindPrivate(p)
      BY <2>1, <2>2, <2>3, <2>4, <3>1, FindPrivateEffect DEF Stage, Match
    <3>2. CASE UnlinkPrivate(p)
      BY <2>1, <2>2, <2>3, <2>4, <3>2, UnlinkPrivateEffect, FileKinds DEF Stage, Match
    <3>3. CASE FindPublic(p)
      BY <2>1, <2>2, <2>3, <2>4, <3>3, FindPublicEffect DEF Stage, Match, Whole
    <3>4. CASE UnlinkPublic(p)
      BY <2>1, <2>2, <2>3, <2>4, <3>4, UnlinkPublicEffect, FileKinds DEF Stage, Match, Whole
    <3> QED
      BY <3>1, <3>2, <3>3, <3>4
  <2>6. job'[p] = NoJob => job'[p].name # n
    BY <2>3 DEF NoJob
  <2>7. job'[p].name = n => Stage(p, n)'
    BY <2>5, <2>6
  <2>8. job'[p].name # n => Whole(n)'
    BY <2>5
  <2> QED
    BY <2>1, <2>2, <2>4, <2>5, <2>7, <2>8, StoreHere
<1> QED
    BY <1>1, <1>2

LEMMA StoreInterrupt ==
    ASSUME Typed, NEW p \in Procs, Interrupt(p), NEW n, n = job[p].name, StoreAt(n)
    PROVE  StoreAt(n)'
<1>1. CASE n \in contended'
    BY <1>1 DEF StoreAt
<1>2. CASE n \notin contended'
  <2>1. /\ Effect(p, n) /\ n \in Names /\ n \in killed' /\ job'[p] = NoJob
        /\ UNCHANGED <<priv, pub, drawn, kept, contended>>
    BY InterruptEffect
  <2>2. /\ Match(n) /\ Kept(n)
        /\ \A q \in Procs \ {p} : job[q].name # n
    BY <1>2, <2>1, OnlyOne
  <2>3. Match(n)' /\ Kept(n)'
    BY <2>1, <2>2 DEF Match, Kept
  <2>4. job'[p].name # n
    BY <2>1, NamesAssumption DEF NoJob
  <2> QED
    BY <2>1, <2>2, <2>3, <2>4, StoreHere
<1> QED
    BY <1>1, <1>2

-----------------------------------------------------------------------------
(* Store is an invariant.                                                  *)

LEMMA StoreInit ==
    ASSUME Init PROVE Store
<1> SUFFICES ASSUME NEW n \in Names PROVE StoreAt(n)
    BY DEF Store
<1>1. n # "none"
    BY NamesAssumption
<1>2. \A p \in Procs : job[p].name # n
    BY <1>1 DEF Init, NoJob
<1>3. priv[n] = Absent /\ pub[n] = Absent /\ kept[n] = 0
    BY DEF Init
<1> QED
    BY <1>2, <1>3, FileKinds DEF StoreAt, Alone, Match, Kept, Whole

LEMMA StoreStep ==
    ASSUME Typed, Store, [Next]_vars PROVE Store'
<1>1. CASE UNCHANGED vars
  BY <1>1 DEF vars, Store, StoreAt, Alone, Stage, Match, Kept, Whole, Free
<1>2. ASSUME NEW p \in Procs, NEW n \in Names, Effect(p, n), About(p, n), StoreAt(n)'
      PROVE  Store'
  <2> SUFFICES ASSUME NEW m \in Names, m # n PROVE StoreAt(m)'
    BY <1>2 DEF Store
  <2> QED
    BY <1>2, StoreElsewhere DEF Store
<1>3. ASSUME NEW p \in Procs, BeginGenerate(p) PROVE Store'
  <2>1. PICK n \in Names :
            /\ Effect(p, n) /\ About(p, n)
            /\ pc[p] = "idle" /\ pc'[p] = "private"
            /\ job'[p] = [name |-> n, pair |-> drawn + 1]
            /\ priv[n] = Absent /\ pub[n] = Absent
            /\ UNCHANGED <<priv, pub, handle, kept, killed>>
            /\ (\E q \in Procs : job[q].name = n) => n \in contended'
    BY <1>3, BeginGenerateEffect
  <2>2. StoreAt(n) /\ job'[p].name = n
    BY <2>1 DEF Store
  <2>3. StoreAt(n)'
    BY <2>1, <2>2, StoreBegin
  <2> QED
    BY <1>2, <2>1, <2>3
<1>4. ASSUME NEW p \in Procs, BeginDelete(p) PROVE Store'
  <2>1. PICK n \in Names :
            /\ Effect(p, n) /\ About(p, n)
            /\ pc[p] = "idle" /\ pc'[p] = "findPrivate"
            /\ job'[p] = [name |-> n, pair |-> 0]
            /\ kept'[n] = 0
            /\ UNCHANGED <<priv, pub, handle, drawn, killed>>
            /\ (\E q \in Procs : job[q].name = n) => n \in contended'
    BY <1>4, BeginDeleteEffect
  <2>2. StoreAt(n) /\ job'[p].name = n
    BY <2>1 DEF Store
  <2>3. StoreAt(n)'
    BY <2>1, <2>2, StoreBegin
  <2> QED
    BY <1>2, <2>1, <2>3
<1>5. ASSUME NEW p \in Procs,
             \/ WritePrivate(p) \/ WritePublic(p) \/ Finish(p)
             \/ FindPrivate(p) \/ UnlinkPrivate(p)
             \/ FindPublic(p) \/ UnlinkPublic(p) \/ Interrupt(p)
      PROVE  Store'
  <2>1. PICK n : n = job[p].name
    OBVIOUS
  <2>2. pc[p] # "idle"
    BY <1>5 DEF WritePrivate, WritePublic, Finish, FindPrivate, UnlinkPrivate,
                FindPublic, UnlinkPublic, Interrupt
  <2>3. n \in Names
    BY <2>1, <2>2, HasName
  <2>4. StoreAt(n)
    BY <2>3 DEF Store
  <2>5. Effect(p, n) /\ About(p, n)
    BY <1>5, <2>1, WritePrivateEffect, WritePublicEffect, FinishEffect, FindPrivateEffect,
       UnlinkPrivateEffect, FindPublicEffect, UnlinkPublicEffect, InterruptEffect
  <2>6. StoreAt(n)'
    BY <1>5, <2>1, <2>4, StoreWritePrivate, StoreWritePublic, StoreFinish, StoreDelete,
       StoreInterrupt
  <2> QED
    BY <1>2, <2>3, <2>5, <2>6
<1>6. CASE Next
  BY <1>3, <1>4, <1>5, <1>6, Actions
<1> QED
    BY <1>1, <1>6

LEMMA StoreInvariant == Spec => [](Typed /\ Store)
<1>1. Init => Typed /\ Store
    BY TypedInit, StoreInit
<1>2. Typed /\ Store /\ [Next]_vars => (Typed /\ Store)'
    BY TypedStep, StoreStep
<1> QED
    BY <1>1, <1>2, PTL DEF Spec

(* The two files of a name two processes never worked on at a time never    *)
(* hold halves of different pairs.                                         *)
THEOREM KeyPairsMatch == Spec => []PairsMatch
<1>1. Store => PairsMatch
    BY DEF Store, StoreAt, Match, PairsMatch
<1> QED
    BY <1>1, StoreInvariant, PTL

(* What generate_keypair reported stays in both files until it is deleted. *)
THEOREM KeyReportedIsKept == Spec => []ReportedIsKept
<1>1. Store => ReportedIsKept
    BY DEF Store, StoreAt, Kept, ReportedIsKept
<1> QED
    BY <1>1, StoreInvariant, PTL

(* A name nobody works on and nobody was interrupted on has both files or   *)
(* none.                                                                   *)
THEOREM KeyNamesAreWhole == Spec => []NamesAreWhole
<1>1. Store => NamesAreWhole
    BY DEF Store, StoreAt, Free, Whole, NamesAreWhole
<1> QED
    BY <1>1, StoreInvariant, PTL
=============================================================================
