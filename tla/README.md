# TLA+ models of server-automation

This directory holds a formal model of the parts of the platform where several requests,
processes or crashes meet: TLA+ modules, TLC configurations that model-check them on small
instances, and theorems that TLAPS proves for every value of the constants. `PROJECT.json` maps
every definition to the lines of `src/` it models and lists components, runs, hazards and findings.

Contents: [the system](#the-system) · [the modules](#the-modules) · [the runs](#the-runs) ·
[fairness](#fairness) · [what is proved](#what-is-proved) ·
[what is only model-checked](#what-is-only-model-checked) ·
[divergences](#divergences-met-while-modelling) · [abstractions](#abstractions) ·
[what is not modelled](#what-is-not-modelled) · [plan](#plan)

## The system

The repository is a self-hosted platform on one k3s host. `platformctl` (Go) installs it; the
platform API (Node/Express, TypeORM on Postgres, Redis) manages projects, deployments, secrets and
settings; agents (LLM tools through `mcp-server`) ask the API to run commands on the host; SDKs
report from the deployed applications; a portal (Angular) shows it all.

| Component | State it keeps | Operations | Hard behaviour | What makes it correct | Module |
|---|---|---|---|---|---|
| Secret rotation, boot recovery (`api/src/lib/secret-rotate.ts`, `credential-recover.ts`, `host-env.ts`, `config/database.ts`, `server.ts`) | passwords of Postgres and Redis, `process.env`, host files, three Kubernetes secrets | rotate, heal, sync, boot | a crash between changing a server and storing its password, lost replies, partial writes | the accepted password is in a copy the next boot reads; the API comes back by itself | `SecretRotation` |
| Provision lock (`platformctl/internal/state/lock_unix.go`) | a lock file, its inode's flock, the pid in it | acquire, take over, release | unlink races, stale pid, kills | one command at a time; a stale lock blocks nobody | `ProvisionLock`, `ProvisionMutex` |
| Provision steps (`platformctl/cmd/root.go`, `internal/state/state.go`) | the progress file | provision, install, seed | kills inside a save, a writer that takes no lock | the file claims only what is installed; saved steps are skipped; a good end is a complete one | `ProvisionSteps` |
| Installers (`platformctl/internal/components`, `helm`, `k3s`, `docker`) | Helm releases, applied objects, Portainer's volume | every `Install…`, resets, retries | kills inside helm, masked errors, lost clusters | a good end serves what was asked for; once both its steps are marked, Portainer is not touched | `Installers` |
| Passwords of the host (`config.go`, `credentials.go`, `recover.go`) | `.env`, credential files, secrets, `pg_hba.conf` | provision, recover | kills between two of the copies, a rotation beside them | the password is kept where recover looks; recover reconnects | `Credentials` |
| Agent commands (`routes/agent-commands.ts`) | table `agent_command_approvals` | validate, execute, approve, reject | read, decide and save in separate statements; expiry; lost saves | a destructive command runs only under a fresh approval, again only if the save of its run was lost, never after a rejection | `AgentCommands` |
| Command guard (`lib/command-guard.ts`, `command-exec.ts`) | none | judge, split, run | two readers of one text, of which the second takes the quotes away | a command is judged as it is written and runs as it was judged, without its quotes | `CommandGuard` |
| Agent tokens (`routes/agent-tokens.ts`, `middleware/auth.ts`) | table `agent_tokens` | patch, revoke, authenticate | stale entities saved over newer rows | a revoked token stays revoked | `AgentTokens` |
| MCP server (`mcp-server/src`) | a JWT and an agent token | login, logout, tools | calls beside a login | a command is executed by whom it was validated for | `McpSession` |
| Deployments, webhooks, decay (`routes/deployments.ts`, `webhooks.ts`, `lib/preview-decay.ts`) | table `deployments`, timers, Kubernetes objects | deploy (a background job), rollback, restart, scale, terminate, expire | jobs and timers that save old rows, crashes | rows tell the truth; jobs settle | `Deployments` |
| Argo CD Applications (`routes/deployments.ts`, `routes/sdk.ts`, `lib/k8s.ts`) | an Application and an Ingress per environment | apply, sync, poll | two kinds of writers of one object | a deployment told deployed is what runs | `Applications` |
| Projects, members, SDK registrations (`routes/projects.ts`, `routes/sdk.ts`) | projects, environments, members, registrations | create, change, delete, grant, revoke, register, heartbeat | several rows per request, no transaction | places agree with the project; an owner stays | `Projects`, `Registrations` |
| Project secrets (`routes/secrets.ts`) | secrets and their versions | set, import, rollback, delete | a version number read before it is used | no value is lost from the history | `ProjectSecrets` |
| Project databases (`lib/project-db-ensure.ts`, `routes/db-provision.ts`) | role, database, stored password | ensure, provision | overlapping ensures, half-done provisions | the answered password opens the database | `ProjectDatabase` |
| Integration settings (`lib/integrations.ts`, `routes/settings.ts`) | one row, a copy in `process.env` | read, put | the row is created by whoever reads first | what was put is what is read | `Integrations` |
| File storage (`routes/storage.ts`) | a row and a file | upload, confirm, delete | streams that outlive their request | row and disk do what was answered | `FileStore` |
| Backups (`routes/settings.ts`, `lib/database-service.ts`, `lib/storage-service.ts`) | providers, backup rows, files, the database | back up, restore, change the default | jobs after the answer, a drop before the restore | a completed backup restores; the database is dropped only with a dump | `Backups` |
| Accounts (`routes/auth.ts`, `lib/oauth-login.ts`, `lib/seed-admin.ts`) | users, roles, codes | login, change, delete, seed, OAuth | stale entities, codes in two steps | nothing changes unasked; a code is used once | `Accounts` |
| Permission cache (`middleware/auth.ts`) | a map in the process | check, fill, clear | a fill that races a clearing | no grant outlives the cache's life | `PermissionCache` |
| Node SDK (`sdk-node/src`, `routes/sdk.ts`) | timers, connections, buffers | init, shutdown, beat, flush | overlapping flushes, stop during start | nothing left running; logs arrive | `SdkClient`, `SdkBuffers` |
| Portal (`platform/portal/src/app`) | token and profile, pages and their timers | login, load, save, poll | answers in any order, several tabs | a page sends what it shows; a session ends only by its user, or by the 401 of a failing database | `PortalSession`, `ProjectPage`, `SettingsPage` |
| Bug reporters (`sdk-react`, `sdk-angular`) | captured console, a form | make, mount, unmount, report | nested captures, lost answers | the console is put back; a report is stored twice only if an answer was lost | `BugReporter` |

How they interact: every API component shares Postgres through TypeORM, one row at a time and
without locks or transactions around read-decide-save (`EntitySave`); the rotation changes the very
password those requests use, and its last step restarts the API, whose boot runs the recovery.
`platformctl` writes the passwords the rotation starts from and reads back those it leaves
(`Credentials`). An agent's command passes the token's authentication first, then the guard, then the
approval. Provision and install share the lock and the progress file; seed shares only the file.
A deployment's job and an SDK registration write the same Application, by its name (`Applications`).
The portal, the SDKs and the MCP server meet the API only through requests whose answers are late or
lost.

## The modules

A module is one component. Where components share rows, one module extends the other:
`AgentCommands`, `AgentTokens`, `Deployments`, `ProjectSecrets`, `Integrations`, `FileStore`,
`Accounts` and `Projects` use `EntitySave`; `ProjectDatabase` extends `ProjectSecrets`,
`PermissionCache` extends `Accounts`, `Registrations` extends `Projects`; `ProvisionLock` implements
`ProvisionMutex`, which `ProvisionSteps` and `Installers` assume. Each `MC…` module puts the modules
of one run together and gives their constants values. `…Proofs` modules extend what they prove about.

Conventions. An action is one handler's code between two awaits, or one system call of a Go program.
Slots (`Reqs`, `Humans`, `Cmds`, …) are requests or processes in flight; their locals are a record or
functions of the slot. Constants and variables named `Max…`, `Early…` or counters of events are bounds
and say so. Variables marked *history* are read by properties only.

**SecretRotation.** `live` is what each server accepts; `env`, `host`, `pending`, `platformEnv` and
`secret` are the copies (`process.env`, `/etc/platform/credentials`, and the secrets
`platform-rotate-pending`, `platform-env`, `databases/postgresql` and `databases/redis`). `stage[t]`
and `job[t]` are program counter and locals of the rotate request or boot `t`; every await of
`rotatePlatformSecrets` ends an action: `Start`, `HostAhead` (`persistPlatformEnv`, which can stop
after any of its files), `WritePending`, `Alter` and `Reply` (an `ALTER USER` or `CONFIG SET` whose
effect and reply are apart), `Reconnect`, `PatchEnv`, `PatchSecret`, `Clear`, `Restart`. `Heal`,
`SyncEnv`, `SyncSecret` are `recoverPostgresAuth` and `recoverRedisAuth`, run by a rotation whose
change failed and by the boot (`BootStart`, `BootConnect`). `Crash` kills the process anywhere.
Passwords are numbers in the order they were generated. `Faults` is the set of failures the
environment may inject, so that a run names what it assumes to work.

**ProvisionLock, ProvisionMutex.** A process is its pid. The path names an inode, an open file belongs
to an inode, the flock is on the inode: unlinking the path does not release it. `AcquireLock` is the
code's sequence open, flock, read the metadata, test the pid, remove, reopen, flock again, truncate and
write. `Unlock` and `Unlink` are the two halves of the function it returns; `Crash` is a kill.

**ProvisionSteps, Installers.** `Plan` is the list of steps: the key `runProvision` marks in progress,
the key the Install function looks up and marks done (ingress-nginx uses two different ones), and
whether that function marks itself again. A save is a truncation and a write with a kill possible in
between. `recorded` is history: the keys whose `MarkDone` returned. `Installers` opens the steps that
`ProvisionSteps` takes as one action: helm operations that stay pending when killed, resets, retries,
scripts whose errors are masked, and the troubles a host meets (a lost cluster, Portainer's data gone).

**Credentials.** One password in seven places (`live`, `envFile`, `credFile`, `platformEnv`, `secret`,
`pending`, the process), the commands provision and recover statement by statement, recover without the
lock, and the API's rotation as far as it moves those places. Kills fall inside the writes of `.env`, which
may also fail before the file is opened (`OpenFails`) or after it was truncated (`WriteEnv`): provision goes
on, and recover's last writes fail unseen (`AdoptFails`). `lapse` is history: one of the accidents that the
properties name has happened.

**EntitySave.** `save` selects the row a second time and writes the columns in which the entity the
handler holds differs from that selection. A column the handler never touched is written back when
another request changed it meanwhile.

**AgentCommands, CommandGuard, AgentTokens, McpSession.** Approval rows under requests that find, decide,
select and update in separate actions; `now` is the clock, `TTL` the hour of an approval, `log` the history
of runs, lost saves and saved decisions. `CommandGuard` judges a command of words and lines as they are
written, splits it as `splitArgv` does and says what runs: `Spelled` is a word without its quotes, and a
rule that allows matches the written word as far as its `\b` (`ReadAlone`, `Reads`). In `AgentTokens`,
`Lookup`, `Compare`, `Authenticated` are `authenticateAgentToken` (bcrypt sits between read and save);
`Manage` with `Delete`, `Rename`, `Activate` or `Deactivate`, and `Answered`, are DELETE and PATCH.
Revocations carry a stamp because `save` compares `revokedAt`. `McpSession` is the one `PlatformClient` and
the tools that use its credentials.

**Deployments.** `row[r]` is what the table holds of deployment `r` (status, whether `terminatedAt` is
set). Actors are the background job of each deployment, requests, webhooks and the decay check; `place`
is their program counter, `about` the deployment they work on, `entity` the copy they found, `selected`
what `save` selected again. `listed` and `found` are what the decay check read at its start; `running` says
whose objects the branch's preview is in Kubernetes, which all previews of a branch share. History:
`touched` (somebody else found the row while its job ran, or a crash hit the job), `restarted`, `shared`
(terminations that were not alone), `kept` (a deletion failed unnoticed), `told` (what was answered). A
webhook's comment in ClickUp is a step of its own between the saved row and the preview (`HookGoesOn`,
`CommentFails`).

**Applications.** The Application of one environment with its version, read and replaced by deployments
and SDK registrations; `runs` is what Argo CD applied; a deployment's verdict comes from at most
`MaxPolls` looks, the first `EarlyPolls` of which insist on fresh pods. A look takes whatever status is
there: `looked` is whether Argo CD has compared the Application as it is, and `misled` names the jobs that
were told deployed by a status from before (both history).

**Projects, Registrations.** Projects, environments, members and the requests of `routes/projects.ts`,
several statements each, and the environments that a deployment to preview makes; `Registrations` adds
`POST /sdk/register`, deregister and heartbeat. `AfterReg` chooses with or without an Application (the body's
`gitops`); whatever fails at Kubernetes, the answer is 201, and the job's `gitops` says what it tells.

**ProjectSecrets, ProjectDatabase.** Rows of one key and their history; `ProjectDatabase` adds the role,
the database and the provisioners, which write the same secret. `AnswerUnread` is the last read of an ensure
when it fails: `readSecrets` answers nothing, and the platform's own credentials are given.

**Integrations, FileStore, Backups.** The settings row (several rows, if two first reads race) and
`process.env`; a registered file with its row, the disk and the write streams of its uploads; providers
with their default, backup jobs, restores (`DROP`, `CREATE`, restore over one admin pool) and the ends
of the process.

**Accounts, PermissionCache.** Every writer of `users` by column, roles and their deletion, seeding,
OAuth logins, authorization codes; the cache of permissions with ages instead of timestamps.

**SdkClient, SdkBuffers.** The life of clients (`cl[c]`), messages on their way and registrations; of a
Redis manager also what its last client ioredis does by itself (`link`, `Redial`) and whether earlier ones
were left behind (`left`). One buffer with its flushes (`posts`), which overlap and whose answers may be lost.

**PortalSession, ProjectPage, SettingsPage, BugReporter.** `localStorage` shared by tabs; a page whose
requests (`calls`, `asks`, `slots`) are answered in any order; the console's functions as a stack. A session
has valid tokens (401 otherwise) and, of those, accepted ones (403 for an inactive user's); a call on a valid
token may still be answered 401 when the database fails (`failed`). A request that the settings page gave up
(`SlotLeft`) stays at work in the API, and `overlapped` is whether a rotation was asked for beside one. A
reporter notes what the console was (`found`) when it is made and replaces it when it is mounted: two steps
of Angular's (`Construct`, `Mount`), one of React's (`MountAtOnce`).

## The runs

Each run's `…Inv` is a conjunction of one type invariant and of named properties, which the modules state
next to one another. Where an `MC` module joins several modules, its variable `part` (`moves` in `MCSdk`)
says which of them a behaviour moves; the others stand still from one initial state, so nothing of the
parts is lost and their state spaces add instead of multiplying.

| Run | Checks | Bounds |
|---|---|---|
| `rotation_safe` | `TypeOK`; `Recoverable`: whatever the process does and wherever it dies, the password each server accepts is in the process or in a secret the boot reads; `SettledInSync`: an idle API uses, and a new pod would start with, the live passwords; `HealsAfterCrash`: a dead API comes back with working passwords | one rotation at a time, 2 rotations, 2 crashes; faults host, lostReply, delete, restart |
| `rotation_faulty` | `WriteAhead`: no server is changed before the old and the new password are stored outside the process; `NoUnappliedPassword`: Kubernetes never runs ahead of Postgres | one rotation at a time, 2 rotations, no crash; every fault but delete, restart, connect |
| `steps` | `TypeOK`; `DoneIsInstalled`; `EndsComplete`; `NotRepeated`: a step whose completion was saved is not installed again unless a save was torn by a kill or a seed wrote beside the lock | three of 3 commands and 1 seed; 2 steps and the seeding |
| `provision` | lock: `NotAllRefused`, `ImplementsMutex`, `StaleLockFreed`; installers: `LocksCleared`, `EndsWell`, `PortainerServes`, `SettledPortainerKept`, `ReprovisionCompletes`; settings page: `NothingEmptied`, `PageShowsStored`, `SecretsDiscarded`, `ShownValuesInForce` | 2 commands, 3 inodes; 11 steps, 3 mishaps; 2 groups, 2 requests in flight, 2 edits, 2 requests |
| `lock_race` | **violation** of `MutualExclusion`: with three commands one unlinks a lock file it no longer owns and two are inside | 3 commands, 4 inodes |
| `agents` | `ApprovedRun`; `DecisionsStand` (`RejectedNeverRuns`, `RunsOnce`, `OnePendingPerCommand`); `LoneRevocationSticks`; guard: `DeniedNeverRuns`, `OneCommand`, `RunByRule`; MCP: `HumanDecides`, `LogoutEnds`, `OneIdentity` | one request of each kind, 2 commands, 2 approvals, TTL 1, 2 ticks, 2 runs, saves may be lost; 1 authentication, 2 administrators; commands of 2 lines and 2 words; 2 tool calls, 2 logins |
| `deployments` | `RowsTrue` (`DeployedSucceeded`, `ExpiredIsGone`, `LoneTerminationSticks`); `FollowupKeepsDeployed`; `JobsSettle`: a job ends, and its row is in progress no more unless a crash, a failed comment of its webhook or another request hit it | 2 deployments, the second a rollback; 2 polls, 1 fault, 2 requests (1 beside a deployment that is no preview) |
| `records` | secrets: `OneActive`, `VersionNamesOneValue`, `NothingLost`; `EnsuredPasswordWorks`; `LonePutInEffect`; `LoneDeleteSticks`, `LoneUploadArrives`; backups: `CompletedIsStored`, `LoneRestoreRestores`, `OneDefault`, `SomeoneSettles`, `DroppedWithDump` | 2 provisioners and 1 writer, 2 rows, 3 values, 2 versions, 1 fault; 2 editors, 3 requests, 1 trouble; 3 file requests; 2 backups, 2 restores, 2 providers, 1 connection, 1 event |
| `accounts` | `NothingUnasked`, `SeedingRepairs`, `CodeUsedOnce`; `ChangeTakesEffect`, `GrantsAreRecent` | 2 accounts, 1 custom role, 2 requests and 1 check at a time; TTL 1, one tick inside a check |
| `projects` | `NoDuplicates`, `OriginAgreed`, `PlacesAssigned`, `MembersInvited`, `NewProjectComplete`, `HostsFollow`, `OwnerKept`; `VerdictTrue` | 2 requests, 2 projects, 2 environments, 2 users, 2 repositories; or two of 2 deployments and 1 registration, 2 looks, 1 failed call |
| `credentials` | `PasswordKept`, `PlatformConnects`, `RecoverReconnects`, `SavedBeforeAlter` | 2 commands at a time, 3 in all, 1 rotation (after it the third command starts alone), 2 passwords |
| `sdk` | `NothingLeftRunning`, `RetriesBounded`, `ShownOnline`; `LogsKept`, `StoredOnce`, `MetricsBounded`, `LogsDelivered`; `ProfileIsTokens`, `SessionKept`, `TabsFollow`; `PostedAsClicked`, `RolledAsShown`, `NothingPolls`, `PageCatchesUp`; `NestedCapture`, `StoredTwiceIfLost`, `WipedWasReported` | 2 clients, or 1 with Redis; 4 entries, 2 faults, 3 posts; 2 tabs, 2 users, 2 tokens, 2 requests, 1 event; a page with 2 requests; 2 reporters, or the form of one |

Why the bounds are enough. A second rotation is where the leftovers of the first (host files of the
rotation before, a pending secret that could not be deleted) can be mistaken; a third sees nothing new,
since every copy holds the passwords of the last two rotations at most when it matters. Two crashes
allow one in a rotation and one in the boot that follows. The lock's races need a holder, a waiter and,
for the violation, one newcomer. Two steps separate "this step" from "an earlier one" and include the
one with two keys and the one that marks itself. Three mishaps are a kill, the failure of its repair and
one trouble. Two approvals and two commands tell an approval for the right command from one for another;
TTL 1 with two ticks reaches "fresh at the check, expired at the save". Lost updates need one stale copy
and one newer save: two requests, and a third for what is left behind (a second administrator, an upload
beside confirmation and deletion, a provisioner beside two writers). A rollback needs a second row; two
polls tell the first look from the last; one fault is the step that fails while the others do not. Two
backups and two providers tell the backup's provider from the default one. Two clients of one name
and one of another meet on one registration. Two answers in flight overtake each other. The bounds
named `Max…` only stop the behaviours: a request beyond one is not made.

The theorems below hold without these bounds where they are proved, so a bound matters only to what is
only model-checked.

Conditions in the properties, stated because the code does not enforce them:

- The rotation runs have one rotation at a time; nothing in `routes/settings.ts` prevents two, and two
  overwrite each other's pending secret. `rotation_safe` assumes that secrets can be written and read.
  If only the host files could be written ahead the code continues as well, and a crash then
  needs the host: the boot does not read `/etc/platform/credentials`.
- `DecisionsStand` is checked for one request of each kind at a time: two overlapping executes both find
  the approval approved and both run the command; an approve and a reject that overlap are both answered
  and the later save wins; two validates create two approvals. `ApprovedRun` does not depend on this.
- Where the code lets a failure decide, the property names it: `JobsSettle` a comment that could not be
  posted, `EnsuredPasswordWorks` a last read that failed, `PlatformConnects` and `PasswordKept` a save of
  `.env` that failed, `SessionKept` the 401 of a failing database, `NothingLeftRunning` an attempt at Redis
  that was refused, `ShownValuesInForce` a rotation asked for while one given up was at work, `VerdictTrue`
  a status older than its Application. `NoDuplicates` leaves out preview environments, of which each
  deployment to preview may make another. `DeniedNeverRuns` is about the command as it is written: a quote
  within a word keeps a rule from matching.
- "Lone", "alone", "clean", "single" and "sure" name requests that nothing overlapped, and are history
  variables set by whoever else touches the same rows. What holds of them is checked and proved in states
  that earlier overlaps, failures and crashes have left behind, which is where a test hardly looks.

`CHECK_DEADLOCK FALSE` is in every configuration because commands end and requests stop at the bounds.

## Fairness

Each fair specification says only what the code's own scheduling gives.

- `SecretRotation!FairSpec`: weak fairness of `BootStep`. A pod whose process exited is restarted by the
  kubelet (restart policy of the deployment), and `bootstrap()` then runs to its end: every await in it
  is assumed to end, with a result or an error. Nothing is assumed of rotations; crashes are bounded by
  `MaxCrashes`, since a process killed forever never comes up.
- `provision`: weak fairness of a command's own system calls once it has started (`flock` is called with
  `LOCK_NB`, no other call blocks); a command need not start, and a kill may come at any time. For the
  installers weak fairness of a running command (`StepNext`) and strong fairness of `RunProvision`: the
  operator runs `platformctl provision` again, as the messages of `root.go` tell him to; mishaps are
  bounded.
- `deployments`: weak fairness of each job. It is a chain of awaits with timeouts in a process that
  otherwise lives; a crash ends it and counts as a fault.
- `sdk`: weak fairness of a client's heartbeat timer and of the handling of its heartbeats; of the
  server's work on a batch and of the flush timer; strong fairness of a tab's poll (a timer that is
  disabled only while an answer is outstanding) and weak fairness of answers; of a page's timers
  and answers. Answers may still be late or lost where a fault says so.
- The other runs check safety and state no fairness.

## What is proved

Thirty-six theorems in eight modules (728 with their lemmas). TLAPS proves them for every value of the
constants, under the named `ASSUME`s of the modules, which TLC evaluates in the runs, and under the
hypotheses in the last column, which are part of the theorem.

| Theorem | Statement | Hypotheses, and what stays arbitrary |
|---|---|---|
| `OperationsProofs!TypeCorrect` | `Spec => []TypeOK` | any faults, requests and bounds |
| `OperationsProofs!RotationIsWriteAhead` | `Spec => WriteAhead` | `OneAtATime`; any faults, rotations, crashes |
| `OperationsProofs!NeverUnapplied` | `Spec => []NoUnappliedPassword` | the same |
| `OperationsProofs!AlwaysRecoverable` | `Spec => []Recoverable` | `OneAtATime`, `CopiesReliable`: no fault of `CopyFaults` |
| `OperationsProofs!RestIsInSync` | `Spec => []SettledInSync` | those two, and no fault `reconnect` |
| `PlatformctlProofs!TypeCorrect` | `Spec => []TypeOK` | any plan, commands and seeds |
| `PlatformctlProofs!DoneMeansInstalled` | `Spec => []DoneIsInstalled` | the same; kills inside a save |
| `PlatformctlProofs!GoodEndIsComplete` | `Spec => []EndsComplete` | the same |
| `PlatformctlProofs!RecordedIsNotRepeated` | `Spec => []NotRepeated` | the same; the property excepts torn saves and unlocked seeds |
| `ProvisionProofs!NeverAllRefused` | `Spec => []NotAllRefused` | any number of commands |
| `ProvisionProofs!TwoExclude` | `Spec => ImplementsMutex` | at most two commands (`lock_race` shows that three break it) |
| `ProvisionProofs!ServerSetUp` | `MCSpec => []ProvisionInv`, the invariant of `provision`: lock, installers, settings page | any list of steps to provision, mishaps, groups of fields, requests in flight |
| `ProvisionProofs!PortainerSettled` | `MCSpec => SettledPortainerKept` | the same |
| `PlatformctlProofs!PasswordStays` | `CredentialsSpec => []CredentialsInv` | any commands beside one another, kills, rotations |
| `PlatformctlProofs!DiskFirst` | `CredentialsSpec => SavedBeforeAlter` | the same |
| `AgentsProofs!TypeCorrect` | `Spec => []TypeOK` (`AgentCommands`) | any number of overlapping requests |
| `AgentsProofs!RunsAreApproved` | `Spec => []ApprovedRun` | the same; any saves lost |
| `AgentsProofs!DecisionsAreFinal` | `Spec => []DecisionsStand` | `OneEach`: one validation, one execution and one human at a time, which overlap one another; any saves lost |
| `AgentsProofs!LoneRevocationStays` | `TokensSpec => []LoneRevocationSticks` | any number of requests |
| `AgentsProofs!AgentsSafe` | `MCSpec => []AgentsInv`, the invariant of `agents`: approvals, tokens, command guard, MCP server | any requests, rules, lines and words of a command, tool calls, logins |
| `CallersProofs!CallersSound` | `CallersSpec => []CallersInv`, the invariant of `sdk`: clients, buffers, session, project page, bug reporters | any clients, entries, faults, tabs, users, requests, reporters |
| `CallersProofs!SessionStaysKept` | `CallersSpec => SessionKept` | the same; any failures of the database |
| `OperationsProofs!RowsStayTrue` | `DeploymentsSpec => []RowsTrue` | any deployments, requests, polls, failures |
| `OperationsProofs!FollowupErrorsAreHarmless` | `DeploymentsSpec => FollowupKeepsDeployed` | the same |
| `RecordsProofs!HistoryIsWhole` | `Spec => []SecretsInv` (`ProjectSecrets`, written by `ProjectDatabase` too) | any writers, provisioners, values, failures |
| `RecordsProofs!EnsuredPasswordOpens` | `Spec => []PasswordInv` | the same |
| `AccountsProofs!OnlyAsAsked` | `Spec => []AccountsInv` (`Accounts`, beside the cache of `PermissionCache`) | any accounts, roles, requests, failures |
| `AccountsProofs!ChangesShow` | `Spec => []PermissionsInv`: how long a lost grant can be served; nothing about how soon a new one is | the same; any checks, any TTL, any wait inside a check |
| `RecordsProofs!FilesAsAnswered` | `FileSpec => []FileInv` | any uploads, confirmations, deletions |
| `RecordsProofs!LonePutsStand` | `IntegrationsSpec => []SettingsInv` | any editors, values, failed reads, restarts |
| `RecordsProofs!BackupsHold` | `BackupsSpec => []BackupsInv` | any backups, restores, providers, pool size |
| `RecordsProofs!DumpBeforeDrop` | `BackupsSpec => DroppedWithDump` | the same |
| `ProjectsProofs!AnswersAgree` | `Spec => []RegistrationsInv` (`Registrations`, which extends `Projects`) | any projects, names, users, requests; the environments of a new project are at least one and of different names |
| `ProjectsProofs!OwnersStay` | `Spec => OwnerKept` | the same |
| `ProjectsProofs!VerdictStays` | `AppsInit /\ [][AppsNext]_appsVars => []AppsInv` (`Applications`) | any deployments, registrations, looks, failed calls |
| `ProjectsProofs!PlacesAgree` | `MCSpec => []PlacesInv`, the invariant of `projects` | those of the two parts |

`RestIsInSync` needs its third hypothesis because a recovery whose reconnect throws has set the process's
password and skips the steps that bring the secrets in line with it. `RowsStayTrue`, `FilesAsAnswered`,
`LonePutsStand`, `BackupsHold`, `EnsuredPasswordOpens`, `ChangesShow`, `AnswersAgree`, `VerdictStays`,
`PasswordStays`, `ServerSetUp`, `AgentsSafe` and `CallersSound` contain the type correctness of their
components.

A theorem is proved from an inductive invariant: true at first, kept by every step, and implying the
property. The invariants, and why the property alone would not do:

- `WriteAheadInv`: from the moment a rotation passed its write-ahead until its store was changed, the
  old password in its locals is the process's own, and the host files or the pending secret hold both
  passwords (`OnHost`, `InPending`). Whether a store may be changed depends on files written several
  steps before. The server's old password equals the process's because `Alter` succeeds only when the
  process can log in.
- `RecoverableInv` follows both stores through a rotation and through the recovery inside it
  (`RotateInv`, `HealInv`): outside the window between a change and its reply the process's password is
  the live one; while the window is open both passwords are in the pending secret, which goes only
  when `platformEnv` holds the new ones. `ControlInv` says that rotations and boots exclude each other.
- `SettledInv` adds what each stage has already patched: after `PatchEnv` the pod's environment is that
  of the process, after `PatchSecret` each store's secret, and a boot's `Sync…` steps make up for what
  a crash left out. `UnappliedInv` orders the passwords of Postgres: until the server is changed the live
  one is older than the rotation's new one, after a confirmed change it is that one, and what a recovery
  is about to write is the live one; so no patch can write a newer password than the server's.
- `StepsInv`: the map a command is about to write (it loaded it earlier, and the file may have changed
  since) claims no more than is installed; a provision leaves a step behind only when it installed it or
  found it done. `PlanAssumption` says that no Install function marks the key of the seeding. `MemoryInv`
  is for `NotRepeated`: while no save was torn and no seed wrote, the file and every map loaded under the
  lock know all of `recorded`.
- `LockIInv` and `PairInv`: what an inode's flock, the path and the open files have to do with each
  other. Of all commands, the first to lock an inode is never refused (`RefusedForOne`). Of two, one
  that takes a lock over is the last one, and so is one whose open file the path no longer names; hence
  two that are inside have locked the same inode. The map to `ProvisionMutex` sends the stages of a
  command to out, in and gone.
- `ApprovalInv`: a row that says approved, and every copy of one on its way to a run, is backed by a
  logged approval of the same command within the TTL (`Approved`); the copy on which a decision is made
  never carries an expiry later than a logged approval allows (`NotExtending`); once a row was decided
  no copy in flight makes it pending again, since `save` writes `pending` only where the copy differs
  from its selection. Clock and log only grow, so an approved run stays approved.
- `DecisionInv`: who is about to use an approved row, or to decide a pending one, has it as it is in the
  table (`HandsInv`); at most one pending row per command, so that a command waits for one decision
  (`OnePending`); a row that was rejected says so for good, and one whose run is logged is executed, is on
  its way to that save, or its save was lost (`SettledLog`, `UsedUp`). That executions and decisions meet
  the row in different statuses is what makes them commute: this is where `OneEach` is needed.
- `LoneInv` (tokens): a request that has the token to itself selects the row it found; after a lone
  revocation every copy in flight, but for activations, says revoked. `SavedKeepsRevoked` and
  `SavedRevokes` are the facts about TypeORM's merge it rests on.
- `HistoryInv` (deployments): the copies that actors hold must be followed, since any of them may be
  written. `RowInv`: a row that says deployed was confirmed. `ActorInv`: a copy that says deployed is
  as true a claim as the row's, and whoever holds the row of a running job has put it among `touched`.
  `ListedInv`: what the decay check has listed is old, its job has ended, and what the check found in
  the row then is a true claim still.
  `LoneInv`: a termination that is alone selects the row as it is, so that its `save` writes what it
  says; after its answer every copy in flight that could write anything else is one of a request that
  the property excepts. `SavedColumns` is the fact about the merge; `UpdateMove`, `FindMove`,
  `NewMove` and `QuietMove` reduce some forty actions to four kinds of step, so that an action is proved
  by naming its kind.
- `FileIInv`, `SettingsIInv`, `BackupsIInv`: for a lone request, that its copy is the row (files), that
  the row it read is the one every later read resolves to, even when two first reads have made two
  rows (settings); for backups, that a completed row's file lies with the provider its job found, that a
  restore whose dump is in hand still has it when it drops the database, that only the jobs named as at
  work hold rows in progress, and that of the providers only the one of the last change is the default
  while no second change is between its two statements.

- `SecretsIInv`: while writers come one at a time, what a writer holds is the row it found, deactivated
  or with the next version number, and in the second case the row's value is in the history already
  (`Knows`); no version in the history is newer than its row, and an equal one has the row's value
  (`Ordered`). `PasswordIInv` follows an ensure that has the database to itself and says at each of its
  stages whether the password it holds is stored by then, is the role's, and is what its save will write
  (`EnsureKnows`); while its answer stands, nobody is at work (`AtRest`).
- `AccountsIInv`, column by column: a column that nobody asks to change is as it was settled in the row,
  in every copy of it a request holds, and in what `save` selected (`Unasked`): then no merge can write
  anything else there. A request that has its account to itself writes what it holds (`Knows`), a seeding
  alone holds the administrator's row (`SeedOK`), and of a code and the exchanges of it there is one
  (`CodeOK`). `Latest` tells an account from a later one under the same address.
- `PermissionsIInv`: an entry of the cache, and what a check has read or computed, is no more than the
  account grants (`Granted`, `Truly`), except while a request is under way that will clear the entry
  (`Excuses`); nothing is known of an account about to be made (`Unknown`); the age of an entry and the
  life left to it add up to no more than a TTL and one wait (`AgesOK`). `AccountsProofs` describes a step
  of a request by what it makes of an account (`Turns`, `Makes`), so that the cache's proof needs
  the steps of `Accounts` by kind only: `JoinKeeps`, `SettleKeeps`, `WorkKeeps`, `UpdateKeeps`.
- `RegistrationsIInv`: what a request knows at each stage, in three groups that other requests can
  disturb in different ways. `Knows` survives everybody, because rows of projects, environments and
  registrations are never deleted and keep their names; it is why `NewProjectComplete` holds whatever
  else ran. `Finds` (no row of that name yet) holds until two requests that touch environments meet.
  `KnowsMembers`, `KnowsPlaces` and `KnowsRegs` (what it read is what is there) hold while nobody shares its
  tables, as `Apart` says of the requests in `lone`; a heartbeat shares none, and changes a registration
  to online only, which the last group allows for. `OwnerKept` comes down to a revocation that counted two
  owners and still has a second one when it deletes. `StepKeeps` proves once what a step leaves to others
  (`Frame`, `Grows`, `Joins`), so that an action has to show only what its own request knows next.
- `AppsIInv`: a job that nobody has disturbed since it wrote the Application is the last that wrote it,
  only its revision is asked for, and a status Synced that was looked at since is about it.
- `CredentialsIInv` says at each statement of provision and recover which passwords the command knows
  (`StageInv`), what it finds where it put it while no other command runs (`LoneInv`), and in which place the
  live password is while no accident has happened (`WhereInv`): in `.env`, in the pending secret, in a
  command that has truncated `.env` and is about to write it, or in a recover that has the server's
  password and not yet the files'. The proof corrected `PasswordKept`: `.env` is truncated twice in a
  provision, and the property had named the first write only.
- `InstallersIInv`: a command is at a stage of its own step (`Within`), has done by that stage what the
  step has done before it (`Ready`), and has behind it the steps of its list, each with what it is there
  for (`Passed`, `Has`). A release that is deleted, or a cluster that is lost, takes `Has` away; the
  marks must then be of steps that promise nothing more, which is what `EndsWell` excepts.
- The settings page (`PageIInv` of `ProvisionProofs`): an empty field on its way to the row was empty
  before the page was filled (`EmptyInv`, the body of a save in flight included), at most one rotation is
  asked for (`RotateInv`), and while requests come one at a time the page shows what is stored but for what
  the request in flight will fill (`ShowInv`). `ChangesInv` bounds the list by the changes asked for.
- `GuardIInv`: what was judged is the words of all lines, and what runs flattens to those words again,
  its first argument being the first word alone. `Splits` restates `splitArgv`'s fold as a function on
  sets of positions, and the facts about it are proved over those.
- `McpIInv`: a call that waits for its validation has the credentials it was sent with, and those of now
  while no login or logout was answered (`ValidationInv`); a login that a logout ended is neither the
  session nor on its way (`LoginsInv`).
- `ClientIInv`: a client that was up when it was shut down, with one link at most and that not dialling, starts
  nothing again (`Stopped`); an attempt to
  connect or the wait for one comes after as many failures as there were reconnects (`Attempts`).
- `BufferIInv`: an entry is in the buffer or in one request whose answer is awaited (`OneHome`), and what is
  stored of it, with the requests given up that may still store it and the one to come, is at most one more
  than the faults so far (`Budget`). This sum is what makes `StoredOnce` inductive: each of its terms can
  grow alone, but only as another falls or a fault is counted.
- `SessionIInv`: a session begun with no other request in flight has only requests under its own token, none
  of them refused while the token is valid (`OwnSession`).
- The project page (`PageIInv` of `CallersProofs`): a user who waits has one request in flight, and it is
  about the branch or the secret that is chosen (`FormInv`, `DialogInv`); a timer is set only where
  its page or modal is open, and so is what will set one (`PollsInv`).
- `ReporterIInv`: while reporters come and go in order the console is a stack of them, each having found
  what is behind it and kept the last entries printed since it came (`StackInv`); a stored report that says
  what the form shows was lost, or is the one being answered (`StoredInv`, `ShownInv`).

Induction over data. The library's induction theorems take an operator as a parameter and cannot be cited
by the installed provers. Where a proof is about a fold or a sequence of any length (`FlattenSeq`,
`splitArgv`, the newest deployment of a branch), it takes the least counterexample instead (`WFMin` of
`WellFoundedInduction`, or a finite set without its maximum), and shows that the function a recursive
definition stands for exists before it uses it. No module that is proved about declares a `RECURSIVE` operator.

## What is only model-checked

Every invariant and every action property of the passing runs is stated by a theorem above. Left to TLC are:

- Liveness (`HealsAfterCrash`, `StaleLockFreed`, `ReprovisionCompletes`, `JobsSettle`, `ShownOnline`,
  `LogsDelivered`, `TabsFollow`, `PageCatchesUp`): it rests on fairness, hence on `ENABLED`, which is outside
  the prover's reach.
- `DecisionsStand` where two validations, executions or humans overlap: it is false there (see above).
- `MutualExclusion` for three commands is false, which `lock_race` shows.

## Divergences met while modelling

`lock_race` is the one run that expects a violation: the comment of `AcquireLock` promises exclusion and
three commands break it. What follows was met while modelling. The properties name it as an exception, so
that what remains is checked, and no run states it.

- *Rotation.* When the patches of the secrets fail, or two requests rotate at once, the pending secret is
  lost and the next boot may not authenticate. After a crash between two patches the secrets under
  `databases/` stay stale, because a boot that authenticates synchronises nothing (`database.ts:65`).
- *Lock and steps.* `AcquireLock` can judge a held lock by the pid of an earlier, dead holder whose
  metadata has not been overwritten (`lock_unix.go:46`). ingress-nginx stays "in progress" in the status
  line because its keys differ (`root.go:240`). A seed that saves the map it loaded earlier erases a
  completion (`root.go:77`). Of the installers: a plain release stays pending after a kill and no later
  run gets past it; scripts of monitoring, Infisical and the platform end well whatever helm did;
  Portainer is deleted when the login of the SSO refresh fails or its values file is gone; the advice
  "re-run install portainer" does nothing once its step is marked; an Argo CD reset loses Applications.
- *Agents.* The guard judges a command with its quotes and `splitArgv` takes them away: what stands in a
  word with a quote inside is not the word the rules look for (`command-guard.ts:46`, `77`,
  `command-exec.ts:107`). A token in use while it is revoked becomes active again (`auth.ts` saves the row
  it found); `isActive` and `revokedAt` can disagree. Two overlapping executes both run an approved
  command. In the MCP server without an agent token, a login answered between validate and execute changes
  who executes.
- *Deployments.* One that is terminated during its job ends deployed. A webhook whose comment cannot be
  posted answers 400 and leaves its row building (`webhooks.ts:78`, `217`). A job may take the status that
  Argo CD reported before its Application was replaced, and call the deployment deployed
  (`deployments.ts:193`). Every deployment to preview that names no environment makes one more
  (`deployments.ts:50`). The webhooks' previews never expire, their handlers ignore the result of
  `deployK8sPreview`, previews of one branch share their objects, and `terminateK8sPreview` leaves the
  Ingress. An SDK registration writes the same Application and replaces the commit by the branch; a
  deployment onto a degraded application fails at the first look because of the old pods; the first one
  leads the Ingress to `sdk-demo`, before any service exists; a status that Argo CD writes between get and
  replace is a conflict nobody retries. A registration whose calls of Kubernetes fail is answered 201, with
  the error in its `gitops` (`sdk.ts:308`).
- *Records.* When the last read of an ensure fails, the platform's own credentials are answered as the
  project's (`project-db-ensure.ts:60`, `301`). A role that cannot be read is cached as the preset alone
  for a minute (`middleware/auth.ts:56`). `POST /databases/provision` answers a password that an existing
  role does not have. A restore uses the provider that is the default now, a failed one marks an intact
  backup FAILED, and its connection is not released.
- *Passwords of the host.* A save of `.env` that fails is a warning, or nothing at all, and provision goes
  on (`root.go:181`, `275`); if the file was truncated, the next one makes a password that the existing
  database does not have. A recover ends well although its last writes failed (`recover.go:314`). A recover
  that finds the database through trust cannot tell the password, and one killed before its writes leaves
  the trust in `pg_hba.conf`; the properties speak of those that could.
- *Portal.* A query that fails during authentication is answered 401, and the portal logs the user out
  (`middleware/auth.ts:152`); the 403 for an inactive account means nothing to it, and the tabs stay. While a
  login waits its button is disabled, and the Enter key sends another. A rotation whose request the page
  gave up is finished by the API, perhaps after the next one, whose values the page shows.
  A wrong current password (401) logs the user out; a late 401 of an earlier session ends the
  new one; late answers pair a branch with another's commits, or a secret with another's versions; a
  modal or page closed before its first answer keeps polling. On the settings page a failed or late load
  leaves empty fields that a save sends, saving one group discards the typed secrets of others, and
  tech leads see buttons whose requests the API refuses.
- *SDKs.* `captureConsole` captures the logger's own output; a batch of logs that the server refuses is
  sent again with every flush, together with those behind it, and of a batch of metrics at most 50 are
  kept; a client ioredis that was refused dials on beside the manager's timer, and `disconnect` quits only
  the last (`redis.ts:20`); Angular makes all reporters of a template before it initialises the first, so
  that each notes the native console; of the bug reporters, one that is unmounted out of order leaves a
  gone reporter's capture and blinds another, text typed while a report is in flight is wiped, and a lost
  answer doubles a report. The React `PlatformProvider` (not modelled) sends its metrics through the
  instance whose interceptors send metrics.

## Abstractions

- One API process. The deployment has one replica; `restartNamedDeployment` is a rolling update whose
  overlap of two processes is left out: `Restart` ends one process and the boot begins another. The lazy
  recovery of `getDb` by other requests during a rotation is left out.
- The administrator's, webhook and Argo CD passwords of a rotation do not take part; the order of the
  recovery's candidates is left out, since only the live password authenticates. A write of a Kubernetes
  secret is atomic: it replaces the object or fails. A restarted Redis pod takes the password of
  `databases/redis` (fault `redisRestart`), because `CONFIG SET` is not persisted.
- Pids are not reused while commands race. In `ProvisionSteps` what a step does on the host is one
  action that installs its software or fails; `Installers` opens it and in turn takes the progress file as
  a set. Errors of a save that the code ignores are left out.
- Rows have the columns a property can tell apart; all integration tokens are one token, one key stands
  for every key, a file for every file. Values, passwords, edits and versions are numbers, equal only if
  they are the same. Uniqueness constraints of the database are guards, and are absent where it has none.
- Destructive commands are a constant in `AgentCommands`; in `CommandGuard` a rule that denies is a set of
  words and their order is left out. Agents' tokens have no clock: an expired one is answered 401 like a
  revoked one. A quote is a property of a word, of one kind, and no word consists of quotes alone.
- Time is a tick where a TTL needs it (`AgentCommands`, `PermissionCache`) and otherwise the order of
  events: a timer is an action that may come at any moment, "older than 72 hours" a cut-off that grows.
- Argo CD, Kubernetes, helm, OAuth providers, browsers and object stores are external: an operation
  succeeds, fails, or is answered late, as `src/` provides for.

## What is not modelled

`PROJECT.json` lists every part with its reason. In short: notification, alert, CI/CD, metrics and audit
routes and the test buttons of the settings append, read or pass on and keep no state of their own; the
registry of database connections is imported by a legacy route only; preflight changes nothing; the portal's
other pages send one request per form; the Python SDK and the React and Angular clients repeat the Node
SDK's protocol; the shell installer is replaced by `platformctl`; documentation, manifests, the demo and
the examples hold no logic. Of modelled parts, `lock_windows.go`, MongoDB and Redis of a project, the
MinIO password and the backup directory of `Credentials`, an upload's stream that breaks after its answer
(`FileStore`) and a batch of logs that cannot be serialised (`SdkBuffers`, `logger.ts:77`) are left out.

## Plan

Done: the inventory; all components whose interleavings, crashes or lost answers matter; twelve runs;
a theorem for every safety property of the passing runs. The proofs changed the model where it was wrong:
`OnlyAsAsked` showed that the deletion of an account was in no step, `PasswordStays` that `PasswordKept`
forgot the second write of `.env`, `AgentsSafe` that `GuardAssumption` said too little of the rules. What
could follow:

1. Two rotations at once: which passwords can be lost, and a bound on the damage that the code does give.
2. `TwoExclude` for any number of commands, if `AcquireLock` no longer unlinks a file it does not own.
3. The response-time properties once ENABLED is within the prover's reach.
