--------------------------- MODULE SecretRotation ---------------------------
(***************************************************************************)
(* One-click rotation of the Postgres and Redis passwords, and the         *)
(* self-recovery the API runs when it boots                                *)
(* (platform/api/src/lib/secret-rotate.ts, credential-recover.ts,          *)
(* host-env.ts, config/database.ts, server.ts).                            *)
(*                                                                         *)
(* A password lives in up to six places: the database server itself        *)
(* (live), the API process (env, lost in a crash), the files under         *)
(* /etc/platform/credentials (host), and three Kubernetes secrets:         *)
(* platform/platform-rotate-pending (pending), platform/platform-env       *)
(* (platformEnv, the pod's environment at its next start) and              *)
(* databases/postgresql resp. databases/redis (secret).  Passwords are     *)
(* numbers: 0 is "absent", rotation number n generates password n + 1 for  *)
(* both stores.  Every await of the code ends an action, so crashes and    *)
(* concurrent requests interleave where they can in the program.           *)
(***************************************************************************)
EXTENDS Naturals, FiniteSets

CONSTANTS
    Rotators,      \* slots for POST /settings/rotate-secrets requests in flight
    Faults,        \* which of FaultKinds the environment may inject
    MaxRotations,  \* bound: rotations started in a behaviour
    MaxCrashes     \* bound: kills of the API process in a behaviour

Boot == "boot"     \* the thread of server.ts bootstrap()
Threads == Rotators \cup {Boot}
Store == {"postgres", "redis"}
Pw == Nat
Absent == 0

(***************************************************************************)
(* What may go wrong besides a crash and a refused connection while        *)
(* altering: a host file, the pending secret or another secret cannot be   *)
(* written; a secret cannot be read; the server changed the password but   *)
(* the reply was an error; TypeORM cannot reconnect; a server is           *)
(* unreachable while candidates are tried; the pending secret cannot be    *)
(* deleted; the rollout restart is refused; the Redis pod restarts with    *)
(* the password of databases/redis.                                        *)
(***************************************************************************)
FaultKinds == {"host", "pending", "patch", "read", "lostReply", "reconnect",
               "connect", "delete", "restart", "redisRestart"}

ASSUME ConstantsAssumption ==
    /\ Boot \notin Rotators
    /\ Faults \subseteq FaultKinds
    /\ MaxRotations \in Nat
    /\ MaxCrashes \in Nat

VARIABLES
    live,         \* the password each database server accepts
    env,          \* process.env.*_PASSWORD
    host,         \* credentials/<store>, <store>.prev and <store>.next
    pending,      \* platform-rotate-pending: *_PASSWORD_OLD and *_PASSWORD_NEW
    platformEnv,  \* platform-env: *_PASSWORD
    secret,       \* databases/postgresql and databases/redis
    api,          \* the API process: "down", "booting" or "up"
    stage,        \* where each thread of the API is
    job,          \* each thread's local variables
    gen,          \* number of the last password generated
    crashes       \* number of crashes so far

copies == <<host, pending, platformEnv, secret>>
vars == <<live, env, host, pending, platformEnv, secret, api, stage, job, gen, crashes>>

Stages == {"idle", "ahead", "pending", "alter", "reply", "reconnect", "connect", "heal",
           "syncEnv", "syncSecret", "patchEnv", "patchSecret", "clear", "restart"}

Job == [store : Store, prev : [Store -> Pw], next : Pw, ahead : BOOLEAN,
        ok : [Store -> BOOLEAN], found : Pw]

NoJob == [store |-> "redis", prev |-> [s \in Store |-> Absent], next |-> Absent,
          ahead |-> FALSE, ok |-> [s \in Store |-> FALSE], found |-> Absent]

HostFiles == [prev : Pw, next : Pw, cur : Pw]
PendingFields == [old : Pw, new : Pw]
NoPending == [s \in Store |-> [old |-> Absent, new |-> Absent]]

TypeOK ==
    /\ live \in [Store -> Pw]
    /\ env \in [Store -> Pw]
    /\ host \in [Store -> HostFiles]
    /\ pending \in [Store -> PendingFields]
    /\ platformEnv \in [Store -> Pw]
    /\ secret \in [Store -> Pw]
    /\ api \in {"down", "booting", "up"}
    /\ stage \in [Threads -> Stages]
    /\ job \in [Threads -> Job]
    /\ gen \in Nat
    /\ crashes \in Nat

\* A platform as platformctl leaves it: every copy is the password installed, the API runs.
Init ==
    /\ live = [s \in Store |-> 1]
    /\ env = live
    /\ host = [s \in Store |-> [prev |-> Absent, next |-> Absent, cur |-> 1]]
    /\ pending = NoPending
    /\ platformEnv = live
    /\ secret = live
    /\ api = "up"
    /\ stage = [t \in Threads |-> "idle"]
    /\ job = [t \in Threads |-> NoJob]
    /\ gen = 1
    /\ crashes = 0

At(t, st) == stage[t] = st
Go(t, st) == stage' = [stage EXCEPT ![t] = st]
Become(t, st, s) == Go(t, st) /\ job' = [job EXCEPT ![t].store = s]
May(fault) == fault \in Faults

-----------------------------------------------------------------------------
(* The copies a recovery can use. *)

\* Mutant: the recovery does not read the pending secret.
ClusterSourcesNoPending == {"platformEnv", "secret"}

\* The copies in Kubernetes: what collectPostgresCandidates and collectRedisCandidates read
\* besides the environment.  The secrets that could be read are those in readable.  The code
\* skips absent entries; no server has the absent password, so here they never authenticate.
ClusterSources == {"pending", "platformEnv", "secret"}
CopiesIn(s, readable) ==
    (IF "pending" \in readable THEN {pending[s].old, pending[s].new} ELSE {})
        \cup (IF "platformEnv" \in readable THEN {platformEnv[s]} ELSE {})
        \cup (IF "secret" \in readable THEN {secret[s]} ELSE {})
ClusterCopies(s) == CopiesIn(s, ClusterSources)
HostCopies(s) == {host[s].prev, host[s].next, host[s].cur}

-----------------------------------------------------------------------------
(* rotatePlatformSecrets *)

\* A request generates the next passwords and remembers the current ones.
Start(t) ==
    /\ api = "up" /\ At(t, "idle") /\ gen <= MaxRotations
    /\ gen' = gen + 1
    /\ job' = [job EXCEPT ![t] = [NoJob EXCEPT !.prev = env, !.next = gen + 1]]
    /\ Go(t, "ahead")
    /\ UNCHANGED <<live, env, copies, api, crashes>>

\* persistPlatformEnv writes postgres.prev, postgres.next, redis.prev, redis.next in this
\* order; after a failed write the files before it have been replaced.
AheadPosition == [postgres |-> 0, redis |-> 2]
HostAhead(t) ==
    /\ At(t, "ahead")
    /\ \E written \in 0..4 :
        /\ written = 4 \/ May("host")
        /\ host' = [s \in Store |->
              [host[s] EXCEPT
                 !.prev = IF written > AheadPosition[s] THEN job[t].prev[s] ELSE @,
                 !.next = IF written > AheadPosition[s] + 1 THEN job[t].next ELSE @]]
        /\ job' = [job EXCEPT ![t].ahead = (written = 4)]
    /\ Go(t, "pending")
    /\ UNCHANGED <<live, env, pending, platformEnv, secret, api, gen, crashes>>

\* Mutant: the pending secret holds the old password in both fields.
WritePendingOldOnly(t) ==
    /\ At(t, "pending")
    /\ pending' = [s \in Store |-> [old |-> job[t].prev[s], new |-> job[t].prev[s]]]
    /\ Become(t, "alter", "redis")
    /\ UNCHANGED <<live, env, host, platformEnv, secret, api, gen, crashes>>

\* Mutant: a rotation goes on when nothing could be written ahead.
WritePendingUnchecked(t) ==
    /\ At(t, "pending")
    /\ \/ pending' = [s \in Store |-> [old |-> job[t].prev[s], new |-> job[t].next]]
       \/ May("pending") /\ UNCHANGED pending
    /\ Become(t, "alter", "redis")
    /\ UNCHANGED <<live, env, host, platformEnv, secret, api, gen, crashes>>

\* writeRotatePending; without it and without the host files the rotation is refused.
WritePending(t) ==
    /\ At(t, "pending")
    /\ \/ /\ pending' = [s \in Store |-> [old |-> job[t].prev[s], new |-> job[t].next]]
          /\ Become(t, "alter", "redis")
       \/ /\ May("pending") /\ job[t].ahead
          /\ Become(t, "alter", "redis")
          /\ UNCHANGED pending
       \/ /\ May("pending") /\ ~job[t].ahead
          /\ Go(t, "idle")
          /\ UNCHANGED <<pending, job>>
    /\ UNCHANGED <<live, env, host, platformEnv, secret, api, gen, crashes>>

\* alterRedisPassword and alterPostgresPassword: log in with the process's password and
\* change it.  The connection may always fail; with a wrong password it does.
Alter(t) ==
    LET s == job[t].store IN
    /\ At(t, "alter")
    /\ \/ /\ env[s] = live[s]
          /\ live' = [live EXCEPT ![s] = job[t].next]
          /\ Go(t, "reply")
       \/ /\ Go(t, "heal")
          /\ UNCHANGED live
    /\ UNCHANGED <<env, copies, api, job, gen, crashes>>

\* Mutant: a store is left that has no database server.
ConfirmedArgocd(j, s) == [j EXCEPT !.ok = [j.ok EXCEPT ![s] = TRUE], !.store = "argocd"]

\* The change of store s is confirmed; the Postgres password is next.
Confirmed(j, s) == [j EXCEPT !.ok = [j.ok EXCEPT ![s] = TRUE], !.store = "postgres"]

\* The reply of the server.  Redis is also asked to accept the new password.  A confirmed
\* change is remembered in the process and on the host (that write may fail unnoticed).
Reply(t) ==
    LET s == job[t].store
        pw == job[t].next IN
    /\ At(t, "reply")
    /\ \/ /\ s = "redis" => live[s] = pw
          /\ env' = [env EXCEPT ![s] = pw]
          /\ \/ host' = [host EXCEPT ![s].cur = pw]
             \/ May("host") /\ UNCHANGED host
          /\ job' = [job EXCEPT ![t] = Confirmed(job[t], s)]
          /\ Go(t, IF s = "redis" THEN "alter" ELSE "reconnect")
       \/ /\ May("lostReply") \/ (s = "redis" /\ live[s] # pw)
          /\ Go(t, "heal")
          /\ UNCHANGED <<env, host, job>>
    /\ UNCHANGED <<live, pending, platformEnv, secret, api, gen, crashes>>

\* reconnectPostgres(new password) after a confirmed ALTER USER; an exception heals.
Reconnect(t) ==
    /\ At(t, "reconnect")
    /\ env' = [env EXCEPT !["postgres"] = job[t].next]
    /\ \/ live["postgres"] = job[t].next /\ Go(t, "patchEnv")
       \/ (live["postgres"] # job[t].next \/ May("reconnect")) /\ Go(t, "heal")
    /\ UNCHANGED <<live, copies, api, job, gen, crashes>>

\* Mutant: platform-env receives the new passwords without a confirmation.
PatchEnvUnconfirmed(t) ==
    /\ At(t, "patchEnv")
    /\ \/ platformEnv' = [s \in Store |-> job[t].next]
       \/ May("patch") /\ UNCHANGED platformEnv
    /\ Become(t, "patchSecret", "postgres")
    /\ UNCHANGED <<live, env, host, pending, secret, api, gen, crashes>>

\* The patch of platform-env carries only the passwords whose change was confirmed.
PatchEnv(t) ==
    /\ At(t, "patchEnv")
    /\ \/ platformEnv' = [s \in Store |-> IF job[t].ok[s] THEN job[t].next ELSE platformEnv[s]]
       \/ May("patch") /\ UNCHANGED platformEnv
    /\ Become(t, "patchSecret", "postgres")
    /\ UNCHANGED <<live, env, host, pending, secret, api, gen, crashes>>

\* databases/postgresql, then databases/redis.
PatchSecret(t) ==
    LET s == job[t].store IN
    /\ At(t, "patchSecret")
    /\ \/ job[t].ok[s] /\ secret' = [secret EXCEPT ![s] = job[t].next]
       \/ (~job[t].ok[s] \/ May("patch")) /\ UNCHANGED secret
    /\ IF s = "postgres" THEN Become(t, "patchSecret", "redis")
                         ELSE Go(t, "clear") /\ UNCHANGED job
    /\ UNCHANGED <<live, env, host, pending, platformEnv, api, gen, crashes>>

\* clearRotatePending runs when both changes were confirmed, whatever the patches did;
\* deleteSecret swallows its errors.
Clear(t) ==
    /\ At(t, "clear")
    /\ \/ (\A s \in Store : job[t].ok[s]) /\ pending' = NoPending
       \/ ((\E s \in Store : ~job[t].ok[s]) \/ May("delete")) /\ UNCHANGED pending
    /\ Go(t, "restart")
    /\ UNCHANGED <<live, env, host, platformEnv, secret, api, job, gen, crashes>>

\* The API process goes away: every request in flight and its variables are gone.
ProcessGone ==
    /\ api' = "down"
    /\ stage' = [t \in Threads |-> "idle"]
    /\ job' = [t \in Threads |-> NoJob]

\* restartNamedDeployment replaces the process; if it is refused the process stays.
Restart(t) ==
    /\ At(t, "restart")
    /\ \/ ProcessGone
       \/ May("restart") /\ Go(t, "idle") /\ UNCHANGED <<api, job>>
    /\ UNCHANGED <<live, env, copies, gen, crashes>>

-----------------------------------------------------------------------------
(* recoverPostgresAuth and recoverRedisAuth, called by a rotation and at boot *)

\* What follows the recovery of store s, whether or not it found a password.
AfterHeal(t, s) ==
    \/ /\ t # Boot /\ s = "redis" /\ Become(t, "alter", "postgres") /\ UNCHANGED api
    \/ /\ t # Boot /\ s = "postgres" /\ Go(t, "patchEnv") /\ UNCHANGED <<job, api>>
    \/ /\ t = Boot /\ s = "postgres" /\ Become(t, "heal", "redis") /\ UNCHANGED api
    \/ /\ t = Boot /\ s = "redis" /\ Go(t, "idle") /\ api' = "up" /\ UNCHANGED job

\* A failed Postgres recovery ends the boot: bootstrap() exits the process.
HealFailed(t, s) ==
    IF t = Boot /\ s = "postgres" THEN ProcessGone ELSE AfterHeal(t, s)

\* Try the candidates.  Only the live password authenticates, so their order is immaterial.
\* recoverRedisAuth does nothing when the environment's password works; Postgres reconnects
\* with the candidate first, which may throw after the environment has been set.
Heal(t) ==
    LET s == job[t].store IN
    /\ At(t, "heal")
    /\ \/ /\ s = "redis" /\ env[s] = live[s]
          /\ AfterHeal(t, s)
          /\ UNCHANGED env
       \/ \E readable \in SUBSET ClusterSources :
          /\ readable = ClusterSources \/ May("read")
          /\ \/ /\ live[s] \in {env[s]} \cup CopiesIn(s, readable)
                /\ s = "redis" => (env[s] # live[s] \/ May("connect"))
                /\ env' = [env EXCEPT ![s] = live[s]]
                /\ \/ /\ Go(t, "syncEnv")
                      /\ job' = [job EXCEPT ![t].found = live[s]]
                      /\ UNCHANGED api
                   \/ s = "postgres" /\ May("reconnect") /\ HealFailed(t, s)
             \/ /\ live[s] \notin {env[s]} \cup CopiesIn(s, readable) \/ May("connect")
                /\ HealFailed(t, s)
                /\ UNCHANGED env
    /\ UNCHANGED <<live, copies, gen, crashes>>

\* Mutant: a recovery does not write platform-env.
SyncEnvSkipped(t) ==
    /\ At(t, "syncEnv")
    /\ Go(t, "syncSecret")
    /\ UNCHANGED <<live, env, copies, api, job, gen, crashes>>

\* syncPostgresSecrets and syncRedisSecrets: two patches, each allowed to fail.
SyncEnv(t) ==
    LET s == job[t].store IN
    /\ At(t, "syncEnv")
    /\ \/ platformEnv' = [platformEnv EXCEPT ![s] = job[t].found]
       \/ May("patch") /\ UNCHANGED platformEnv
    /\ Go(t, "syncSecret")
    /\ UNCHANGED <<live, env, host, pending, secret, api, job, gen, crashes>>

SyncSecret(t) ==
    LET s == job[t].store IN
    /\ At(t, "syncSecret")
    /\ \/ secret' = [secret EXCEPT ![s] = job[t].found]
       \/ May("patch") /\ UNCHANGED secret
    /\ AfterHeal(t, s)
    /\ UNCHANGED <<live, env, host, pending, platformEnv, gen, crashes>>

-----------------------------------------------------------------------------
(* The process: crash, container start, boot *)

Crash ==
    /\ api # "down" /\ crashes < MaxCrashes
    /\ crashes' = crashes + 1
    /\ ProcessGone
    /\ UNCHANGED <<live, env, copies, gen>>

\* A container starts with the passwords platform-env holds at that moment.
BootStart ==
    /\ api = "down"
    /\ api' = "booting"
    /\ env' = platformEnv
    /\ Go(Boot, "connect")
    /\ UNCHANGED <<live, copies, job, gen, crashes>>

\* getDb: an authentication error starts the recovery, any other error ends the process.
BootConnect ==
    /\ At(Boot, "connect")
    /\ \/ env["postgres"] = live["postgres"] /\ Become(Boot, "heal", "redis") /\ UNCHANGED api
       \/ env["postgres"] # live["postgres"] /\ Become(Boot, "heal", "postgres") /\ UNCHANGED api
       \/ May("connect") /\ ProcessGone
    /\ UNCHANGED <<live, env, copies, gen, crashes>>

\* The Redis server keeps CONFIG SET in memory only: a restarted pod takes databases/redis.
RedisRestart ==
    /\ May("redisRestart") /\ live["redis"] # secret["redis"]
    /\ live' = [live EXCEPT !["redis"] = secret["redis"]]
    /\ UNCHANGED <<env, copies, api, stage, job, gen, crashes>>

Rotate(t) ==
    \/ Start(t) \/ HostAhead(t) \/ WritePending(t) \/ Alter(t) \/ Reply(t) \/ Reconnect(t)
    \/ PatchEnv(t) \/ PatchSecret(t) \/ Clear(t) \/ Restart(t)

Recover(t) == Heal(t) \/ SyncEnv(t) \/ SyncSecret(t)

BootStep == BootStart \/ BootConnect \/ Recover(Boot)

Next ==
    \/ \E t \in Rotators : Rotate(t) \/ Recover(t)
    \/ BootStep
    \/ Crash
    \/ RedisRestart

Spec == Init /\ [][Next]_vars

\* kubelet restarts a container that exits and the boot code has no wait of its own.
FairSpec == Spec /\ WF_vars(BootStep)

-----------------------------------------------------------------------------
(* Properties *)

AtRest == api = "up" /\ \A t \in Threads : At(t, "idle")

\* The password a server accepts is always in a Kubernetes secret the boot recovery reads
\* (secret-rotate.ts: "the next API boot tries every stored copy").
Recoverable == \A s \in Store : live[s] \in ClusterCopies(s)

\* Whenever the API is up and idle, it uses the passwords the servers accept and a restarted
\* pod would start with them.
SettledInSync ==
    AtRest => \A s \in Store : env[s] = live[s] /\ platformEnv[s] = live[s]

\* Write-ahead: a rotation changes a server's password only when both the password it
\* accepted and the one it will accept are stored outside the process.
WriteAheadStep ==
    \A t \in Rotators :
        At(t, "alter") /\ stage'[t] = "reply" =>
            LET s == job[t].store IN
            {live[s], live'[s]} \subseteq ClusterCopies(s) \cup HostCopies(s)
WriteAhead == [][WriteAheadStep]_vars

\* Kubernetes never holds a Postgres password newer than the server's: the secrets receive a
\* password only after the server took it, "otherwise the API crash-loops on restart".
NoUnappliedPassword ==
    /\ platformEnv["postgres"] <= live["postgres"]
    /\ secret["postgres"] <= live["postgres"]

\* A platform whose API died comes back by itself with working passwords.
HealsAfterCrash ==
    api = "down" ~> (api = "up" /\ \A s \in Store : env[s] = live[s])

-----------------------------------------------------------------------------
(* Inductive invariants behind WriteAhead and Recoverable, for one rotation at a time *)

OneAtATime == \A t, u \in Rotators : t = u

\* Faults under which a stored copy may be missing, or unread, when it is needed.
CopyFaults == {"pending", "patch", "read", "connect", "redisRestart"}

\* A rotation runs in a booted process, the boot in a process that serves nothing yet;
\* only Postgres reconnects.
ControlInv ==
    /\ api = "up" => At(Boot, "idle")
    /\ api # "up" => \A t \in Rotators : At(t, "idle")
    /\ \A t \in Rotators : At(t, "reconnect") => job[t].store = "postgres"

\* Thread t still has to change store s and has already written its passwords ahead.
MustAlter(t, s) ==
    \/ At(t, "alter") /\ job[t].store \in {s, "redis"}
    \/ stage[t] \in {"reply", "heal", "syncEnv", "syncSecret"} /\ job[t].store = "redis" /\ s # "redis"

OnHost(t, s) == host[s].prev = job[t].prev[s] /\ host[s].next = job[t].next
InPending(t, s) == pending[s].old = job[t].prev[s] /\ pending[s].new = job[t].next

WriteAheadInv ==
    /\ ControlInv
    /\ \A t \in Rotators, s \in Store :
        /\ stage[t] \in {"ahead", "pending"} => job[t].prev[s] = env[s]
        /\ At(t, "pending") /\ job[t].ahead => OnHost(t, s)
        /\ MustAlter(t, s) => job[t].prev[s] = env[s] /\ (OnHost(t, s) \/ InPending(t, s))

Healing == {"heal", "syncEnv", "syncSecret"}
Syncing == {"syncEnv", "syncSecret"}
InSync(s) == env[s] = live[s]

\* While a thread recovers one store the process already uses the other's live password,
\* except at boot, where Postgres comes first.
HealInv(t) ==
    LET s == job[t].store IN
    /\ stage[t] \in Healing /\ (t = Boot => s = "redis") =>
         \A other \in Store : other # s => InSync(other)
    /\ stage[t] \in Syncing => job[t].found = live[s] /\ InSync(s)

RotateInv(t) ==
    LET s == job[t].store IN
    /\ stage[t] \in {"ahead", "pending"} =>
         \A st \in Store : job[t].prev[st] = live[st] /\ ~job[t].ok[st]
    /\ stage[t] \in {"ahead", "pending", "alter", "patchEnv", "patchSecret", "clear", "restart"} =>
         \A st \in Store : InSync(st)
    /\ At(t, "reply") => live[s] = job[t].next /\ \A st \in Store : st # s => InSync(st)
    /\ At(t, "reconnect") => InSync("redis") /\ live["postgres"] = job[t].next
    /\ stage[t] \in {"alter", "reply", "reconnect", "patchEnv", "patchSecret", "clear"} \cup Healing =>
         \A st \in Store : InPending(t, st) /\ (job[t].ok[st] => live[st] = job[t].next)
    /\ stage[t] \in {"patchSecret", "clear"} =>
         \A st \in Store : job[t].ok[st] => platformEnv[st] = job[t].next

RecoverableInv ==
    /\ ControlInv
    /\ Recoverable
    /\ api = "up" /\ (\A t \in Rotators : At(t, "idle")) => \A s \in Store : InSync(s)
    /\ \A t \in Threads : HealInv(t)
    /\ \A t \in Rotators : RotateInv(t)
=============================================================================
