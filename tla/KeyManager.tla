----------------------------- MODULE KeyManager ----------------------------
(***************************************************************************)
(* The keystore of the SecureVault toolkit (securevault/key_manager.py):   *)
(* two files per name, {name}.priv and {name}.pub, written one after the   *)
(* other by generate_keypair and unlinked one after the other by           *)
(* delete_key.  Each operation is a process of its own and looks before it *)
(* leaps; nothing locks the directory, and a process may be killed between *)
(* any two steps.                                                          *)
(*                                                                         *)
(* A write truncates the file and then fills it.  A file that is unlinked  *)
(* while a process writes it is gone by name: what the process writes then *)
(* goes nowhere.  A key pair is named by the number of its draw.           *)
(* Passwords are left out, for a wrong one changes no file, and so are the *)
(* operations that only read (load and list).                              *)
(***************************************************************************)
EXTENDS Integers

CONSTANTS
    Procs,      \* the processes that may run at the same time
    Names,      \* the names key pairs are stored under
    Interrupts, \* TRUE when a process may be killed or a write may fail
    MaxDrawn    \* bound: key pairs drawn

ASSUME InterruptsAssumption == Interrupts \in BOOLEAN
ASSUME DrawnAssumption      == MaxDrawn \in Nat
ASSUME NamesAssumption      == "none" \notin Names

VARIABLES
    priv,       \* the .priv files, by name
    pub,        \* the .pub files, by name
    pc,         \* per process: where it stands
    handle,     \* per process: the file it has open for writing
    job,        \* per process: the name it works on and the pair it drew
    drawn,      \* how many key pairs were drawn
    kept,       \* history: the pair generate_keypair reported for a name and
                \* nobody began to delete since; 0 when there is none
    killed,     \* history: the names a process was interrupted on
    contended   \* history: the names two processes worked on at a time

history == <<kept, killed, contended>>
vars    == <<priv, pub, pc, handle, job, drawn, kept, killed, contended>>

Absent     == [state |-> "absent"]
Torn       == [state |-> "torn"]
Full(k, h) == [state |-> "full", pair |-> k, half |-> h]

Exists(f)  == f # Absent
Legible(f) == f.state = "full"

Steps   == {"idle", "private", "public", "finish",
            "findPrivate", "unlinkPrivate", "findPublic", "unlinkPublic"}
Handles == {"closed", "open", "unlinked"}
NoJob   == [name |-> "none", pair |-> 0]

Init ==
    /\ priv = [n \in Names |-> Absent]
    /\ pub = [n \in Names |-> Absent]
    /\ pc = [p \in Procs |-> "idle"]
    /\ handle = [p \in Procs |-> "closed"]
    /\ job = [p \in Procs |-> NoJob]
    /\ drawn = 0
    /\ kept = [n \in Names |-> 0]
    /\ killed = {}
    /\ contended = {}

-----------------------------------------------------------------------------
GoTo(p, step) == pc' = [pc EXCEPT ![p] = step]
End(p)        == GoTo(p, "idle") /\ job' = [job EXCEPT ![p] = NoJob]

(* p begins to work on n with pair k (0 to delete). *)
Begin(p, n, k, step) ==
    /\ pc[p] = "idle"
    /\ job' = [job EXCEPT ![p] = [name |-> n, pair |-> k]]
    /\ contended' = contended \cup {m \in {n} : \E q \in Procs : job[q].name = m}
    /\ GoTo(p, step)

(* p writes its half of the pair to the file of its name in table f, then  *)
(* goes on.  Over what another process wrote since, the longer text shows  *)
(* behind the shorter.                                                     *)
Write(p, f, half, next) ==
    LET n == job[p].name
    IN  \/ /\ handle[p] = "closed"
           /\ f' = [f EXCEPT ![n] = Torn]
           /\ handle' = [handle EXCEPT ![p] = "open"]
           /\ UNCHANGED pc
        \/ /\ handle[p] = "open"
           /\ \/ f' = [f EXCEPT ![n] = Full(job[p].pair, half)]
              \/ Legible(f[n]) /\ f' = [f EXCEPT ![n] = Torn]
           /\ handle' = [handle EXCEPT ![p] = "closed"]
           /\ GoTo(p, next)
        \/ /\ handle[p] = "unlinked"
           /\ UNCHANGED f
           /\ handle' = [handle EXCEPT ![p] = "closed"]
           /\ GoTo(p, next)

(* The processes that write the file p unlinks keep a file without a name. *)
Unlink(p, f, writing) ==
    LET n == job[p].name
    IN  /\ f' = [f EXCEPT ![n] = Absent]
        /\ handle' = [q \in Procs |->
              IF handle[q] = "open" /\ pc[q] = writing /\ job[q].name = n
                THEN "unlinked" ELSE handle[q]]

-----------------------------------------------------------------------------
(* generate_keypair.                                                       *)

(* Mutant of BeginGenerate: only the .priv file is asked for. *)
BeginGenerateIfUnlisted(p) ==
    /\ drawn < MaxDrawn
    /\ drawn' = drawn + 1
    /\ \E n \in Names : ~Exists(priv[n]) /\ Begin(p, n, drawn', "private")
    /\ UNCHANGED <<priv, pub, handle, kept, killed>>

(* Mutant of BeginGenerate: nothing is asked for. *)
BeginGenerateAnyway(p) ==
    /\ drawn < MaxDrawn
    /\ drawn' = drawn + 1
    /\ \E n \in Names : Begin(p, n, drawn', "private")
    /\ UNCHANGED <<priv, pub, handle, kept, killed>>

(* The name is free: draw the pair and encrypt its private half. *)
BeginGenerate(p) ==
    /\ drawn < MaxDrawn
    /\ drawn' = drawn + 1
    /\ \E n \in Names :
          ~Exists(priv[n]) /\ ~Exists(pub[n]) /\ Begin(p, n, drawn', "private")
    /\ UNCHANGED <<priv, pub, handle, kept, killed>>

(* Mutant of WritePrivate: the halves of the new pair are mixed up. *)
WritePrivateSwapped(p) ==
    /\ pc[p] = "private"
    /\ Write(p, priv, "public", "public")
    /\ UNCHANGED <<pub, job, drawn, history>>

WritePrivate(p) ==
    /\ pc[p] = "private"
    /\ Write(p, priv, "private", "public")
    /\ UNCHANGED <<pub, job, drawn, history>>

WritePublic(p) ==
    /\ pc[p] = "public"
    /\ Write(p, pub, "public", "finish")
    /\ UNCHANGED <<priv, job, drawn, history>>

(* generate_keypair returns. *)
Finish(p) ==
    /\ pc[p] = "finish"
    /\ kept' = [kept EXCEPT ![job[p].name] = job[p].pair]
    /\ End(p)
    /\ UNCHANGED <<priv, pub, handle, drawn, killed, contended>>

-----------------------------------------------------------------------------
(* delete_key.                                                             *)

BeginDelete(p) ==
    /\ \E n \in Names :
          /\ Exists(priv[n]) \/ Exists(pub[n])
          /\ Begin(p, n, 0, "findPrivate")
          /\ kept' = [kept EXCEPT ![n] = 0]
    /\ UNCHANGED <<priv, pub, handle, drawn, killed>>

FindPrivate(p) ==
    /\ pc[p] = "findPrivate"
    /\ \/ Exists(priv[job[p].name]) /\ GoTo(p, "unlinkPrivate")
       \/ ~Exists(priv[job[p].name]) /\ GoTo(p, "findPublic")
    /\ UNCHANGED <<priv, pub, handle, job, drawn, history>>

(* Mutant of UnlinkPrivate: the deletion ends with the .priv file. *)
UnlinkPrivateOnly(p) ==
    /\ pc[p] = "unlinkPrivate"
    /\ Unlink(p, priv, "private")
    /\ End(p)
    /\ UNCHANGED <<pub, drawn, history>>

(* unlink() raises if another process was faster, and the deletion ends.   *)
UnlinkPrivate(p) ==
    /\ pc[p] = "unlinkPrivate"
    /\ \/ /\ Exists(priv[job[p].name])
          /\ Unlink(p, priv, "private")
          /\ GoTo(p, "findPublic")
          /\ UNCHANGED job
       \/ /\ ~Exists(priv[job[p].name])
          /\ End(p)
          /\ UNCHANGED <<priv, handle>>
    /\ UNCHANGED <<pub, drawn, history>>

FindPublic(p) ==
    /\ pc[p] = "findPublic"
    /\ \/ Exists(pub[job[p].name]) /\ GoTo(p, "unlinkPublic") /\ UNCHANGED job
       \/ ~Exists(pub[job[p].name]) /\ End(p)
    /\ UNCHANGED <<priv, pub, handle, drawn, history>>

UnlinkPublic(p) ==
    /\ pc[p] = "unlinkPublic"
    /\ \/ Exists(pub[job[p].name]) /\ Unlink(p, pub, "public")
       \/ ~Exists(pub[job[p].name]) /\ UNCHANGED <<pub, handle>>
    /\ End(p)
    /\ UNCHANGED <<priv, drawn, history>>

-----------------------------------------------------------------------------
(* A process is killed, or one of its writes fails after the truncation.   *)
Interrupt(p) ==
    /\ Interrupts
    /\ pc[p] # "idle"
    /\ killed' = killed \cup {job[p].name}
    /\ handle' = [handle EXCEPT ![p] = "closed"]
    /\ End(p)
    /\ UNCHANGED <<priv, pub, drawn, kept, contended>>

GenerateKeypair(p) ==
    BeginGenerate(p) \/ WritePrivate(p) \/ WritePublic(p) \/ Finish(p)

DeleteKey(p) ==
    BeginDelete(p) \/ FindPrivate(p) \/ UnlinkPrivate(p) \/ FindPublic(p) \/ UnlinkPublic(p)

Next == \E p \in Procs : GenerateKeypair(p) \/ DeleteKey(p) \/ Interrupt(p)

Spec == Init /\ [][Next]_vars

-----------------------------------------------------------------------------
(* Properties.                                                             *)

IsHalf(f, half) == f \in {Absent, Torn} \cup {Full(k, half) : k \in 1 .. drawn}

(* The type of every variable; a .priv file holds private halves and a     *)
(* .pub file public ones.                                                  *)
TypeOK ==
    /\ \A n \in Names : IsHalf(priv[n], "private") /\ IsHalf(pub[n], "public")
    /\ pc \in [Procs -> Steps]
    /\ handle \in [Procs -> Handles]
    /\ job \in [Procs -> [name : Names \cup {"none"}, pair : 0 .. drawn]]
    /\ kept \in [Names -> 0 .. drawn]
    /\ killed \subseteq Names
    /\ contended \subseteq Names

(* The two files of a name never hold halves of different pairs, wherever  *)
(* processes were killed, as long as no two worked on the name at a time.  *)
PairsMatch ==
    \A n \in Names \ contended :
        Legible(priv[n]) /\ Legible(pub[n]) => priv[n].pair = pub[n].pair

(* A pair generate_keypair has reported stays in both files until somebody *)
(* deletes it, whatever happens to other names and whoever tries to        *)
(* generate the name again.                                                *)
ReportedIsKept ==
    \A n \in Names \ contended :
        kept[n] # 0 =>
            priv[n] = Full(kept[n], "private") /\ pub[n] = Full(kept[n], "public")

(* A name nobody works on has both files or none, unless a process was     *)
(* killed on it: what list_keys() lists can be loaded.                     *)
NamesAreWhole ==
    \A n \in Names \ (contended \cup killed) :
        (\A p \in Procs : job[p].name # n) =>
            \/ ~Exists(priv[n]) /\ ~Exists(pub[n])
            \/ Legible(priv[n]) /\ Legible(pub[n])
=============================================================================
