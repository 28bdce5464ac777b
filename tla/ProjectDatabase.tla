-------------------------- MODULE ProjectDatabase --------------------------
(***************************************************************************)
(* The Postgres role and database of one environment and the stored        *)
(* POSTGRES_PASSWORD: ensurePostgresForProject and the credentials an SDK  *)
(* asks for (platform/api/src/lib/project-db-ensure.ts), its fallback      *)
(* provisionPostgresDb (lib/database-service.ts) and POST /databases/      *)
(* provision (routes/db-provision.ts), beside the routes that write the    *)
(* secret as they write any other (ProjectSecrets).  HOST, PORT and USER   *)
(* never change; POSTGRES_DB is stored last and says that all of them are. *)
(***************************************************************************)
EXTENDS ProjectSecrets

CONSTANTS
    Provisioners, \* the slots of Writers whose requests provision
    MaxFaults     \* bound: statements of Postgres that fail

ASSUME DatabaseAssumption == Provisioners \subseteq Writers /\ MaxFaults \in Nat

VARIABLES
    role,    \* the password of the role, None if there is no role
    db,      \* whether the database exists
    named,   \* whether POSTGRES_DB is stored
    step,    \* where each provisioner is
    mode,    \* what each of them runs
    pw,      \* the password it holds
    faults,  \* failures so far
    lone,    \* history: provisioners that have had the database and the secret to themselves
    ready    \* history: what the last provisioner that had them to itself answered, "platform" for the
             \*   platform's own credentials after a read that failed

database == <<role, db, named>>
work == <<step, mode, pw>>
vars == <<secrets, database, work, faults, lone, ready>>

Passwords == 0 .. MaxValues
Modes == {"ensure", "fallback", "provision"}
Steps == {"idle", "bind", "role", "check", "make", "grant", "store", "storing", "name", "read"}
Nothing == [mode |-> "nothing", pw |-> None]

TypeOK ==
    /\ SecretsTypeOK
    /\ role \in Passwords /\ db \in BOOLEAN /\ named \in BOOLEAN
    /\ step \in [Provisioners -> Steps] /\ mode \in [Provisioners -> Modes]
    /\ pw \in [Provisioners -> Passwords]
    /\ faults \in 0 .. MaxFaults
    /\ lone \subseteq Provisioners
    /\ ready \in [mode : Modes \cup {"nothing", "platform"}, pw : Passwords]

Init ==
    /\ SecretsInit
    /\ role = None /\ db = FALSE /\ named = FALSE
    /\ step = [p \in Provisioners |-> "idle"] /\ mode = [p \in Provisioners |-> "ensure"]
    /\ pw = [p \in Provisioners |-> None]
    /\ faults = 0 /\ lone = {} /\ ready = Nothing

To(p, st) == step' = [step EXCEPT ![p] = st]
Quit(p) ==
    /\ To(p, "idle")
    /\ mode' = [mode EXCEPT ![p] = "ensure"] /\ pw' = [pw EXCEPT ![p] = None]
Fault == faults < MaxFaults /\ faults' = faults + 1
Busy(w) == stage[w] # "idle" \/ (w \in Provisioners /\ step[w] # "idle")

\* The request starts: from now on it shares the database with every other that is at work.
Start(p, m, st, v) ==
    /\ step[p] = "idle"
    /\ To(p, st)
    /\ mode' = [mode EXCEPT ![p] = m] /\ pw' = [pw EXCEPT ![p] = v]
    /\ lone' = IF \E w \in Writers : Busy(w) THEN {} ELSE {p}
    /\ ready' = Nothing

-----------------------------------------------------------------------------
(* ensurePostgresForProject *)

\* The secrets are read: with all of them stored the role is bound to that password again.
EnsureStored(p, i) ==
    /\ named /\ i \in Active
    /\ Start(p, "ensure", "bind", secret[i].value)
    /\ UNCHANGED <<secrets, database, faults>>

\* Otherwise a new password is made: also when they are stored and could not be read or decrypted.
EnsureFresh(p, v) ==
    /\ IF named /\ Active # {} THEN Fault ELSE UNCHANGED faults
    /\ NewValue(v) /\ Start(p, "ensure", "role", v)
    /\ UNCHANGED <<secret, versions, stage, about, entity, selected, wanted, overlapped, upserted,
                   held, database>>

\* Mutant: an existing role keeps its password.
BindNew(p) ==
    /\ step[p] = "bind"
    /\ role' = IF role = None THEN pw[p] ELSE role
    /\ db' = TRUE
    /\ To(p, "read")
    /\ UNCHANGED <<secrets, named, mode, pw, faults, lone, ready>>

\* ALTER or CREATE ROLE; a missing database is created, and only a missing role with it.
Bind(p) ==
    /\ step[p] = "bind"
    /\ role' = IF db \/ role = None THEN pw[p] ELSE role
    /\ db' = TRUE
    /\ To(p, "read")
    /\ UNCHANGED <<secrets, named, mode, pw, faults, lone, ready>>

\* The fresh path gives an existing role the new password, provisionPostgresDb leaves it its own.
MakeRole(p) ==
    /\ step[p] = "role"
    /\ role' = IF mode[p] = "ensure" \/ role = None THEN pw[p] ELSE role
    /\ To(p, "check")
    /\ UNCHANGED <<secrets, db, named, mode, pw, faults, lone, ready>>

CheckDb(p) ==
    /\ step[p] = "check"
    /\ To(p, IF db THEN "grant" ELSE "make")
    /\ UNCHANGED <<secrets, database, mode, pw, faults, lone, ready>>

\* CREATE DATABASE, which fails when another request has created it since.
MakeDb(p) ==
    /\ step[p] = "make" /\ ~db
    /\ db' = TRUE
    /\ To(p, "grant")
    /\ UNCHANGED <<secrets, role, named, mode, pw, faults, lone, ready>>

Grant(p) ==
    /\ step[p] = "grant"
    /\ To(p, "store")
    /\ UNCHANGED <<secrets, database, mode, pw, faults, lone, ready>>

\* The password is upserted ...
Store(p) ==
    /\ step[p] = "store"
    /\ Upsert(p, pw[p])
    /\ To(p, "storing")
    /\ UNCHANGED <<values, database, mode, pw, faults, lone, ready>>

Stored(p) ==
    /\ step[p] = "storing"
    /\ Save(p)
    /\ To(p, IF stage'[p] = "idle" THEN "name" ELSE "storing")
    /\ UNCHANGED <<database, mode, pw, faults, lone, ready>>

\* ... and POSTGRES_DB last.
Name(p) ==
    /\ step[p] = "name"
    /\ named' = TRUE
    /\ To(p, "read")
    /\ UNCHANGED <<secrets, role, db, mode, pw, faults, lone, ready>>

AnsweredWith(p, m, v) ==
    /\ step[p] = "read"
    /\ ready' = IF p \in lone THEN [mode |-> m, pw |-> v] ELSE ready
    /\ lone' = lone \ {p}
    /\ Quit(p)
    /\ UNCHANGED <<secrets, database>>

\* The answer.  resolveProjectDbCredentials reads the secrets again, and without one answers
\* the platform's own credentials; the route has the password in its hand.
Answer(p, v) ==
    /\ CASE mode[p] = "provision" -> v = pw[p]
         [] mode[p] # "provision" /\ Active # {} -> \E i \in Active : v = secret[i].value
         [] OTHER -> v = None
    /\ AnsweredWith(p, mode[p], v) /\ UNCHANGED faults

\* readSecrets answers nothing when the read or the decryption fails: the platform's own are answered.
AnswerUnread(p) ==
    /\ mode[p] # "provision" /\ Fault
    /\ AnsweredWith(p, "platform", None)

-----------------------------------------------------------------------------
(* Failures *)

\* A statement fails: of Postgres, or CREATE DATABASE of a database that exists by now.
Fails(p) ==
    \/ step[p] \in {"bind", "role", "check", "make", "grant", "name"} /\ Fault
    \/ step[p] = "make" /\ db /\ UNCHANGED faults
    \/ step[p] \in {"store", "storing"} /\ Fault

\* ensurePostgresForProject falls back on provisionPostgresDb, with a password of its own.
FallBack(p, v) ==
    /\ mode[p] = "ensure" /\ Fails(p)
    /\ NewValue(v)
    /\ mode' = [mode EXCEPT ![p] = "fallback"] /\ pw' = [pw EXCEPT ![p] = v]
    /\ To(p, "role")
    /\ stage' = [stage EXCEPT ![p] = "idle"] /\ about' = [about EXCEPT ![p] = Nowhere]
    /\ entity' = [entity EXCEPT ![p] = NoRow] /\ selected' = [selected EXCEPT ![p] = NoRow]
    /\ wanted' = [wanted EXCEPT ![p] = None]
    /\ UNCHANGED <<secret, versions, overlapped, upserted, held, database, lone, ready>>

\* A failure of the fallback is answered with status error, one of POST /provision with 400.
GiveUp(p) ==
    /\ mode[p] # "ensure" /\ Fails(p)
    /\ ~(mode[p] = "provision" /\ step[p] \in {"store", "storing", "name"})
    /\ Forget(p) /\ Quit(p)
    /\ lone' = lone \ {p}
    /\ UNCHANGED <<secret, versions, values, overlapped, upserted, held, database, ready>>

\* The route answers the password also when it could not be stored.
Unstored(p) ==
    /\ mode[p] = "provision" /\ step[p] \in {"store", "storing", "name"} /\ Fails(p)
    /\ Forget(p)
    /\ To(p, "read")
    /\ UNCHANGED <<secret, versions, values, overlapped, upserted, held, database, mode, pw,
                   lone, ready>>

\* The process is killed.
Crash ==
    /\ \E p \in Provisioners : step[p] # "idle"
    /\ Fault
    /\ stage' = [w \in Writers |-> "idle"] /\ about' = [w \in Writers |-> Nowhere]
    /\ entity' = [w \in Writers |-> NoRow] /\ selected' = [w \in Writers |-> NoRow]
    /\ wanted' = [w \in Writers |-> None]
    /\ step' = [p \in Provisioners |-> "idle"] /\ mode' = [p \in Provisioners |-> "ensure"]
    /\ pw' = [p \in Provisioners |-> None] /\ lone' = {}
    /\ UNCHANGED <<secret, versions, values, overlapped, upserted, held, database, ready>>

-----------------------------------------------------------------------------
(* POST /databases/provision *)

Provision(p, v) ==
    /\ NewValue(v) /\ Start(p, "provision", "role", v)
    /\ UNCHANGED <<secret, versions, stage, about, entity, selected, wanted, overlapped, upserted,
                   held, database, faults>>

-----------------------------------------------------------------------------
\* A request of the routes writes the secret.
Write(w) ==
    /\ Route(w) \/ Save(w) \/ Abandon(w)
    /\ lone' = IF stage[w] = "idle" THEN {} ELSE lone
    /\ ready' = Nothing
    /\ UNCHANGED <<database, work, faults>>

Next ==
    \/ \E w \in Writers \ Provisioners : Write(w)
    \/ \E p \in Provisioners :
          \/ \E i \in Ids : EnsureStored(p, i)
          \/ \E v \in 1 .. MaxValues : EnsureFresh(p, v) \/ Provision(p, v) \/ FallBack(p, v)
          \/ Bind(p) \/ MakeRole(p) \/ CheckDb(p) \/ MakeDb(p) \/ Grant(p)
          \/ Store(p) \/ Stored(p) \/ Name(p)
          \/ (\E v \in Passwords : Answer(p, v)) \/ AnswerUnread(p)
          \/ GiveUp(p) \/ Unstored(p)
    \/ Crash

Spec == Init /\ [][Next]_vars

-----------------------------------------------------------------------------
(* Properties *)

\* "Keep password in sync so stored secret always works": what is left of it.  Credentials that an
\* SDK was given by an ensure that had the database to itself, and did not have to fall back, are
\* the role's and the stored ones, whatever earlier provisions left half done and whether or not the
\* stored ones could be read first, unless overlapping writers have left two active rows of the
\* password, or the last read failed, which answers the platform's own credentials.
EnsuredPasswordWorks ==
    ready.mode = "ensure" /\ (\A i, j \in Active : i = j) =>
        /\ role = ready.pw
        /\ \E i \in Active : secret[i].value = ready.pw

\* The stored password opens the database after such an ensure, in every state the rows can be in.
PasswordInv == TypeOK /\ EnsuredPasswordWorks
=============================================================================
