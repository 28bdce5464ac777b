----------------------------- MODULE Credentials -----------------------------
(***************************************************************************)
(* The Postgres password of a host under platformctl provision and         *)
(* platformctl recover (platformctl/internal/config/config.go,             *)
(* internal/components/{components,credentials,recover}.go, cmd/root.go).  *)
(* The configuration is loaded when the program starts, before the lock is *)
(* taken; recover takes no lock.  The API rotates the password and heals   *)
(* itself at its start meanwhile; its steps are those of SecretRotation,   *)
(* here only where they leave the places a password lies.  Passwords are   *)
(* numbers, 0 is none.                                                     *)
(***************************************************************************)
EXTENDS Naturals, Sequences, FiniteSets

CONSTANTS
    Commands,     \* commands an administrator may run
    MaxRuns,      \* bound: commands started
    MaxRotations, \* bound: rotations started
    MaxPasswords  \* bound: passwords ever made

ASSUME CredentialsAssumption ==
    "free" \notin Commands /\ {MaxRuns, MaxRotations, MaxPasswords} \subseteq Nat

VARIABLES
    live,        \* the password of the role postgres, 0 while there is no database
    trust,       \* pg_hba.conf lets every local connection in
    envFile,     \* POSTGRES_PASSWORD in /etc/platform/.env
    credFile,    \* /etc/platform/credentials/postgres
    platformEnv, \* the secret platform/platform-env
    secret,      \* the secret databases/postgresql
    pending,     \* the secret platform/platform-rotate-pending
    api,         \* the password with which platform-api is connected, 0 when it is not
    done,        \* the steps marked done in the progress file
    inside,      \* the command inside the provision lock
    cmd,         \* what each command does
    tmp,         \* the files under /tmp that every recover writes: the password to set, the one that worked
    made,        \* passwords made so far
    runs,        \* commands and rotations started so far
    lone,        \* history: commands that nothing but the start of the API has run beside
    lapse        \* history: a command overlapped with recover, a value of .env was lost, not written,
                 \* overwritten or passed over unseen, a pending secret was deleted before its password was
                 \* elsewhere, platform-env was not applied, or trust stayed behind

stores == <<envFile, credFile, platformEnv, secret, pending>>
credentialVars == <<live, trust, stores, api, done, inside, cmd, tmp, made, runs, lone, lapse>>

Pw == 0 .. MaxPasswords
NoPending == [old |-> 0, new |-> 0]
Idle == [kind |-> "none", at |-> "out", cfg |-> 0, known |-> 0, pw |-> 0, tried |-> {}, sure |-> TRUE]

CredentialsTypeOK ==
    /\ {live, envFile, credFile, platformEnv, secret, api} \subseteq Pw
    /\ pending \in [old : Pw, new : Pw] /\ trust \in BOOLEAN
    /\ done \subseteq {"postgresql", "platform"} /\ inside \in Commands \cup {"free"}
    /\ \A p \in Commands : cmd[p].cfg \in Pw /\ cmd[p].known \in Pw /\ cmd[p].pw \in Pw
                       /\ cmd[p].tried \subseteq Pw
    /\ tmp \in [alter : Pw, working : Pw] /\ made \in Pw
    /\ runs \in [commands : 0 .. MaxRuns, rotations : 0 .. MaxRotations]
    /\ lone \subseteq Commands /\ lapse \in BOOLEAN

\* A fresh server.
CredentialsInit ==
    /\ live = 0 /\ trust = FALSE /\ envFile = 0 /\ credFile = 0
    /\ platformEnv = 0 /\ secret = 0 /\ pending = NoPending /\ api = 0
    /\ done = {} /\ inside = "free" /\ cmd = [p \in Commands |-> Idle]
    /\ tmp = [alter |-> 0, working |-> 0] /\ made = 0
    /\ runs = [commands |-> 0, rotations |-> 0] /\ lone = {} /\ lapse = FALSE

-----------------------------------------------------------------------------
(* Commands *)

GoTo(p, at) == cmd' = [cmd EXCEPT ![p].at = at]
Become(p, c) == cmd' = [cmd EXCEPT ![p] = c]
At(p, at) == cmd[p].at = at
LeaveLock(p) == inside' = IF inside = p THEN "free" ELSE inside
Lapsed(when) == lapse' = (lapse \/ when)

\* What a history keeps: p takes a step, alone or beside others.
Ran(p) == lone' = {q \in lone : q = p /\ cmd'[q].at # "out"}

\* Mutant: as for Infisical's key, the password is not read back.
LoadNothing == 0

\* Load: "Prefer values already written by a prior provision."
Load == envFile

Start(p, kind, at) ==
    /\ At(p, "out") /\ runs.commands < MaxRuns
    /\ runs' = [runs EXCEPT !.commands = @ + 1]
    /\ Become(p, [Idle EXCEPT !.kind = kind, !.at = at, !.cfg = Load, !.known = envFile])
    /\ lone' = IF \A q \in Commands : At(q, "out") THEN {p} ELSE {}
    /\ Lapsed(\E q \in Commands : ~At(q, "out") /\ "recover" \in {kind, cmd[q].kind})
    /\ UNCHANGED <<live, trust, stores, api, done, inside, tmp, made>>

RunProvision(p) == Start(p, "provision", "lock")
Recover(p) == Start(p, "recover", "gather")

\* AcquireLock, which refuses rather than waits.
Lock(p) ==
    /\ At(p, "lock")
    /\ IF inside = "free" THEN inside' = p /\ GoTo(p, "save") ELSE Become(p, Idle) /\ UNCHANGED inside
    /\ Ran(p)
    /\ UNCHANGED <<live, trust, stores, api, done, tmp, made, runs, lapse>>

\* SaveEnvFile truncates the file ...
TruncateEnv(p, from, to) ==
    /\ At(p, from)
    /\ envFile' = 0
    /\ GoTo(p, to)
    /\ Lapsed(envFile # cmd[p].known)
    /\ Ran(p)
    /\ UNCHANGED <<live, trust, credFile, platformEnv, secret, pending, api, done, inside, tmp, made, runs>>

\* ... then writes what the command has.  It may fail before it opens the file or after the file was
\* truncated, with the line of the password lost or cut: provision takes a failure for a warning, or
\* for nothing, and goes on.
SaveEnds(p, to, left) ==
    /\ envFile' = left
    /\ Become(p, [cmd[p] EXCEPT !.at = to, !.known = cmd[p].cfg])
    /\ Ran(p)
    /\ UNCHANGED <<live, trust, credFile, platformEnv, secret, pending, api, done, inside, tmp, runs>>

OpenFails(p, from, to) ==
    /\ At(p, from)
    /\ SaveEnds(p, to, envFile)
    /\ Lapsed(envFile # cmd[p].cfg)
    /\ UNCHANGED made

WriteEnv(p, from, to) ==
    /\ At(p, from)
    /\ \/ SaveEnds(p, to, cmd[p].cfg) /\ Lapsed(envFile # 0) /\ UNCHANGED made
       \/ SaveEnds(p, to, 0) /\ Lapsed(TRUE) /\ UNCHANGED made
       \/ made < MaxPasswords /\ SaveEnds(p, to, made + 1) /\ Lapsed(TRUE) /\ made' = made + 1

-----------------------------------------------------------------------------
(* runProvision *)

GenerateSecrets(p) ==
    LET none == cmd[p].cfg = 0 IN
    /\ At(p, "save")
    /\ none => made < MaxPasswords
    /\ made' = IF none THEN made + 1 ELSE made
    /\ Become(p, [cmd[p] EXCEPT !.at = "open", !.cfg = IF none THEN made + 1 ELSE @])
    /\ Ran(p)
    /\ UNCHANGED <<live, trust, stores, api, done, inside, tmp, runs, lapse>>

\* The first SaveEnvFile.
Save(p) == TruncateEnv(p, "open", "write")
SaveWrites(p) == WriteEnv(p, "write", "postgresql") \/ OpenFails(p, "open", "postgresql")

\* A command ends in a failure: its lock is released.
Fail(p) == Become(p, Idle) /\ LeaveLock(p)

\* The chart sets the secret; only a new volume gets its password.
InstallPostgreSQL(p) ==
    LET pw == cmd[p].cfg IN
    /\ At(p, "postgresql")
    /\ IF "postgresql" \in done
       THEN GoTo(p, "platform") /\ UNCHANGED <<live, secret, inside>>
       ELSE /\ secret' = pw /\ live' = (IF live = 0 THEN pw ELSE live)
            /\ \/ GoTo(p, "donePostgresql") /\ UNCHANGED inside
               \/ Fail(p)
    /\ Ran(p)
    /\ UNCHANGED <<trust, envFile, credFile, platformEnv, pending, api, done, tmp, made, runs, lapse>>

MarkStep(p, step, from, to) ==
    /\ At(p, from)
    /\ done' = done \cup {step}
    /\ GoTo(p, to)
    /\ Ran(p)
    /\ UNCHANGED <<live, trust, stores, api, inside, tmp, made, runs, lapse>>

\* The script has no set -e: when the secret cannot be applied the step succeeds all the same.
\* A Deployment that was there already keeps its pods.
InstallPlatform(p) ==
    /\ At(p, "platform")
    /\ \/ /\ "platform" \in done
          /\ GoTo(p, "finish")
          /\ UNCHANGED <<platformEnv, inside, lapse>>
       \/ /\ "platform" \notin done
          /\ platformEnv' \in {platformEnv, cmd[p].cfg}
          /\ Lapsed(platformEnv' # cmd[p].cfg \/ envFile # cmd[p].cfg)
          /\ \/ GoTo(p, "donePlatform") /\ UNCHANGED inside
             \/ Fail(p)
    /\ Ran(p)
    /\ UNCHANGED <<live, trust, envFile, credFile, secret, pending, api, done, tmp, made, runs>>

\* The last SaveEnvFile.
Finish(p) == TruncateEnv(p, "finish", "rewrite")
FinishWrites(p) == WriteEnv(p, "rewrite", "provisioned") \/ OpenFails(p, "finish", "provisioned")

Provisioning(p) ==
    \/ Lock(p) \/ GenerateSecrets(p) \/ Save(p) \/ SaveWrites(p) \/ InstallPostgreSQL(p) \/ InstallPlatform(p)
    \/ MarkStep(p, "postgresql", "donePostgresql", "platform")
    \/ MarkStep(p, "platform", "donePlatform", "finish")
    \/ Finish(p) \/ FinishWrites(p)

-----------------------------------------------------------------------------
(* RecoverAccess *)

FirstFilled(s) == LET filled == {i \in DOMAIN s : s[i] # 0} IN
    IF filled = {} THEN 0 ELSE s[CHOOSE i \in filled : \A j \in filled : i <= j]

\* The candidates, in the order in which they are tried, and the password to set when none works.
Gather(p) ==
    LET candidates == <<cmd[p].cfg, platformEnv, secret, pending.old, pending.new>>
        pw == FirstFilled(candidates)
    IN
    /\ At(p, "gather")
    /\ pw = 0 => made < MaxPasswords
    /\ made' = IF pw = 0 THEN made + 1 ELSE made
    /\ Become(p, [cmd[p] EXCEPT !.at = "persistFile", !.pw = IF pw = 0 THEN made + 1 ELSE pw,
                                !.tried = {candidates[i] : i \in 1 .. 5} \ {0}])
    /\ Ran(p)
    /\ UNCHANGED <<live, trust, stores, api, done, inside, tmp, runs, lapse>>

\* PersistLocalCredentials: the file, then .env, each written whole or not at all.  Before the
\* script a failure ends the command, like a kill.
PersistFile(p, from, to, pw) ==
    /\ At(p, from)
    /\ credFile' = pw
    /\ Become(p, [cmd[p] EXCEPT !.at = to, !.pw = pw])
    /\ Ran(p)
    /\ UNCHANGED <<live, trust, envFile, platformEnv, secret, pending, api, done, inside, tmp, made, runs, lapse>>

PersistEnv(p, from, to, pw, files) ==
    /\ At(p, from)
    /\ envFile' = pw
    /\ Become(p, [cmd[p] EXCEPT !.at = to, !.known = pw])
    /\ tmp' = files
    /\ Lapsed(envFile # cmd[p].known)
    /\ Ran(p)
    /\ UNCHANGED <<live, trust, credFile, platformEnv, secret, pending, api, done, inside, made, runs>>

\* Mutant: nothing is written.
PersistNothing(p) ==
    /\ At(p, "persistFile")
    /\ GoTo(p, "try")
    /\ tmp' = [alter |-> cmd[p].pw, working |-> 0]
    /\ Ran(p)
    /\ UNCHANGED <<live, trust, stores, api, done, inside, made, runs, lapse>>

\* "Disk first. Never ALTER until these writes succeed."
PersistFirst(p) ==
    \/ PersistFile(p, "persistFile", "persistEnv", cmd[p].pw)
    \/ PersistEnv(p, "persistEnv", "try", cmd[p].pw, [alter |-> cmd[p].pw, working |-> 0])

\* The script tries the candidates.  With trust on, the first one works whatever it is; a pod that
\* does not answer refuses all.
Try(p) ==
    LET c == cmd[p]
        Works(pw) ==
            /\ Become(p, [c EXCEPT !.at = "patchEnv", !.pw = pw, !.sure = ~trust])
            /\ credFile' = pw /\ tmp' = [tmp EXCEPT !.working = pw] /\ UNCHANGED inside
    IN
    /\ At(p, "try")
    /\ \/ live # 0 /\ trust /\ Works(c.pw)
       \/ live # 0 /\ ~trust /\ live \in c.tried \cup {secret} /\ Works(live)
       \/ /\ live # 0 \* nothing worked, or the pod did not answer
          /\ GoTo(p, "trust")
          /\ credFile' = c.pw /\ tmp' = [tmp EXCEPT !.working = c.pw] /\ UNCHANGED inside
       \/ live = 0 /\ Fail(p) /\ credFile' = c.pw /\ tmp' = [tmp EXCEPT !.working = c.pw]
    /\ Lapsed(trust)
    /\ Ran(p)
    /\ UNCHANGED <<live, trust, envFile, platformEnv, secret, pending, api, done, made, runs>>

EnableTrust(p) ==
    /\ At(p, "trust")
    /\ trust' = TRUE
    /\ GoTo(p, "alter")
    /\ Ran(p)
    /\ UNCHANGED <<live, stores, api, done, inside, tmp, made, runs, lapse>>

\* ALTER USER, from the file that the last recover wrote; the script goes on when it fails.
Alter(p) ==
    /\ At(p, "alter")
    /\ live' \in {live, tmp.alter}
    /\ GoTo(p, "untrust")
    /\ Ran(p)
    /\ UNCHANGED <<trust, stores, api, done, inside, tmp, made, runs, lapse>>

\* restore_trust, whose failure nobody sees, and the check that the password on disk authenticates.
RestoreTrust(p) ==
    /\ At(p, "untrust")
    /\ trust' \in BOOLEAN
    /\ \/ /\ trust' \/ live = cmd[p].pw
          /\ Become(p, [cmd[p] EXCEPT !.at = "patchEnv", !.sure = ~trust'])
          /\ UNCHANGED inside
       \/ ~trust' /\ live # cmd[p].pw /\ Fail(p)
    /\ Lapsed(trust')
    /\ Ran(p)
    /\ UNCHANGED <<live, stores, api, done, tmp, made, runs>>

\* "Never ALTER when we already had a working password - sync Kubernetes to it."
Patched(c) == c.pw

\* The script goes on when a patch fails.
PatchEnv(p) ==
    /\ At(p, "patchEnv")
    /\ \/ platformEnv' = Patched(cmd[p]) /\ GoTo(p, "patchSecret")
       \/ Become(p, [cmd[p] EXCEPT !.at = "patchSecret", !.sure = FALSE]) /\ UNCHANGED platformEnv
    /\ Ran(p)
    /\ UNCHANGED <<live, trust, envFile, credFile, secret, pending, api, done, inside, tmp, made, runs, lapse>>
PatchSecret(p) ==
    /\ At(p, "patchSecret")
    /\ \/ secret' = Patched(cmd[p]) /\ GoTo(p, "clear")
       \/ Become(p, [cmd[p] EXCEPT !.at = "clear", !.sure = FALSE]) /\ UNCHANGED secret
    /\ Ran(p)
    /\ UNCHANGED <<live, trust, envFile, credFile, platformEnv, pending, api, done, inside, tmp, made, runs, lapse>>

Clear(p) ==
    /\ At(p, "clear")
    /\ pending' = NoPending
    /\ GoTo(p, "restart")
    /\ Lapsed(~cmd[p].sure)
    /\ Ran(p)
    /\ UNCHANGED <<live, trust, envFile, credFile, platformEnv, secret, api, done, inside, tmp, made, runs>>

RolloutRestart(p) ==
    /\ At(p, "restart")
    /\ api' \in {0, api}
    /\ GoTo(p, "adoptFile")
    /\ Ran(p)
    /\ UNCHANGED <<live, trust, stores, done, inside, tmp, made, runs, lapse>>

\* What the script says worked is persisted again; nobody sees when it is not, or not in .env.
Adopt(p) ==
    \/ /\ tmp.working # 0
       /\ PersistFile(p, "adoptFile", "adoptEnv", tmp.working)
    \/ PersistEnv(p, "adoptEnv", "recovered", cmd[p].pw, tmp)

AdoptFails(p) ==
    /\ cmd[p].at \in {"adoptFile", "adoptEnv"}
    /\ Become(p, [cmd[p] EXCEPT !.at = "recovered", !.sure = FALSE])
    /\ Lapsed(envFile # cmd[p].pw)
    /\ Ran(p)
    /\ UNCHANGED <<live, trust, stores, api, done, inside, tmp, made, runs>>

Recovering(p) ==
    \/ Gather(p) \/ PersistFirst(p) \/ Try(p) \/ EnableTrust(p) \/ Alter(p) \/ RestoreTrust(p)
    \/ PatchEnv(p) \/ PatchSecret(p) \/ Clear(p) \/ RolloutRestart(p) \/ Adopt(p)
    \/ AdoptFails(p)

-----------------------------------------------------------------------------
Exit(p) ==
    /\ cmd[p].at \in {"provisioned", "recovered"}
    /\ Fail(p)
    /\ Ran(p)
    /\ UNCHANGED <<live, trust, stores, api, done, tmp, made, runs, lapse>>

\* The command is killed.  Killed while it writes the progress file, it leaves that empty.
Kill(p) ==
    /\ ~At(p, "out")
    /\ Fail(p)
    /\ \/ UNCHANGED done
       \/ cmd[p].at \in {"donePostgresql", "donePlatform"} /\ done' = {}
    /\ Lapsed(cmd[p].at \in {"write", "rewrite", "restart", "adoptFile", "adoptEnv"})
    /\ lone' = lone \ {p}
    /\ UNCHANGED <<live, trust, stores, api, tmp, made, runs>>

\* The API starts or restarts.  What its environment has from platform-env may open the database;
\* else it adopts the stored password that does, and patches the secrets as far as it can.
StartApi ==
    /\ platformEnv # 0 /\ live # 0
    /\ api' = live
    /\ \/ live = platformEnv /\ UNCHANGED <<platformEnv, secret>>
       \/ /\ live # platformEnv /\ live \in {secret, pending.old, pending.new}
          /\ platformEnv' \in {platformEnv, live} /\ secret' \in {secret, live}
    /\ UNCHANGED <<live, trust, envFile, credFile, pending, done, inside, cmd, tmp, made, runs, lone, lapse>>

\* A rotation by the API gets as far as its step k: the pending secret, ALTER, the host's files,
\* platform-env, the database's secret, the end of the pending secret; then the API restarts.
Rotation(k) ==
    LET new == made + 1 IN
    /\ api # 0 /\ api = live
    /\ runs.rotations < MaxRotations /\ made < MaxPasswords
    /\ runs' = [runs EXCEPT !.rotations = @ + 1]
    /\ made' = new
    /\ pending' = IF k >= 6 THEN NoPending ELSE [old |-> api, new |-> new]
    /\ live' = IF k >= 2 THEN new ELSE live
    /\ envFile' = IF k >= 3 THEN new ELSE envFile
    /\ credFile' = IF k >= 3 THEN new ELSE credFile
    /\ platformEnv' = IF k >= 4 THEN new ELSE platformEnv
    /\ secret' = IF k >= 5 THEN new ELSE secret
    /\ api' = 0
    /\ lone' = {}
    /\ Lapsed(\E p \in Commands : cmd[p].kind = "recover" /\ ~At(p, "out"))
    /\ UNCHANGED <<trust, done, inside, cmd, tmp>>

CredentialsNext ==
    \/ \E p \in Commands : \/ RunProvision(p) \/ Recover(p)
                       \/ Provisioning(p) \/ Recovering(p) \/ Exit(p) \/ Kill(p)
    \/ StartApi
    \/ \E k \in 1 .. 6 : Rotation(k)

CredentialsSpec == CredentialsInit /\ [][CredentialsNext]_credentialVars

-----------------------------------------------------------------------------
(* Properties *)

Kept == {envFile, platformEnv, secret, pending.old, pending.new}

\* Once there is a database, the password that opens it lies in a place that recover tries,
\* through every crash of provision, recover, rotation and the progress file, unless one of the
\* accidents of lapse has happened.
PasswordKept == live # 0 /\ ~lapse => live \in Kept \/ \E p \in Commands : cmd[p].cfg = live /\ (At(p, "write") \/ At(p, "rewrite"))

\* A provision that ends well, with no rotation left unfinished, leaves the API a password with
\* which it reaches the database.
PlatformConnects ==
    \A p \in lone : At(p, "provisioned") /\ ~lapse /\ pending = NoPending => platformEnv = live

\* "reconnects Postgres": whatever happened before, after a recover that ran alone, found the
\* password with no trust in the way, could patch the secrets and wrote the password down, they
\* and .env hold the password of the database.
RecoverReconnects ==
    \A p \in lone : At(p, "recovered") /\ cmd[p].sure =>
        platformEnv = live /\ secret = live /\ envFile = live

\* "Disk first. Never ALTER until these writes succeed.": what a recover alone sets is on disk.
SavedBeforeAlter ==
    [][\A p \in lone : At(p, "alter") /\ cmd'[p].at = "untrust" => live' \in {live, credFile} /\ live' \in {live, envFile}]_credentialVars

\* Through kills anywhere, the password of the database is not lost, a provision leaves the API one
\* that works and recover reconnects what came apart.
CredentialsInv == CredentialsTypeOK /\ PasswordKept /\ PlatformConnects /\ RecoverReconnects
=============================================================================
