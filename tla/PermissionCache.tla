-------------------------- MODULE PermissionCache --------------------------
(***************************************************************************)
(* The permissions of an account, the union of its preset role's and its   *)
(* custom role's, and the cache of them in the process                     *)
(* (platform/api/src/middleware/auth.ts), beside the requests that change  *)
(* accounts and roles (Accounts).  expressAuthenticate reads the row,      *)
(* getUserPermissions answers from the cache or reads the custom role and  *)
(* fills it, and whoever changes a role clears the entries of its users.   *)
(* Time counts in ticks.                                                   *)
(***************************************************************************)
EXTENDS Accounts

CONSTANTS
    Preset,  \* ROLE_PRESETS
    Checks,  \* slots for requests whose permission is checked
    Callers, \* bound: the accounts that make them
    TTL,     \* ticks in PERMISSION_CACHE_TTL_MS
    MaxAwait \* bound: ticks between reading an account and the check that uses it

ASSUME CacheAssumption ==
    /\ Preset \in [RoleNames -> SUBSET Perms] /\ Preset["admin"] = Perms
    /\ Callers \subseteq Users /\ TTL \in Nat \ {0} /\ MaxAwait \in Nat

VARIABLES
    perms, \* the permissions of each custom role
    cache, \* permCache, by account: the permissions, the ticks they are still good for and
           \* (history) how long ago the account was read
    check, \* where each check is, what it has read, and how long ago
    crossed \* history: accounts whose entry was cleared while a check of them was in flight, or
            \* was not cleared because the request failed

vars == <<accounts, perms, cache, check, crossed>>

Entry == [perms : SUBSET Perms, left : 0 .. TTL, age : Nat]
NoEntry == [perms |-> {}, left |-> 0, age |-> 0]
Check == [at : {"idle", "resolve", "role", "fill", "granted"}, of : Users, row : Row,
          perms : SUBSET Perms, age : Nat]
NoCheck == [at |-> "idle", of |-> Admin, row |-> NoUser, perms |-> {}, age |-> 0]

TypeOK ==
    /\ AccountsTypeOK
    /\ perms \in [Roles -> SUBSET Perms]
    /\ cache \in [Users -> [1 .. MaxGen -> Entry]]
    /\ check \in [Checks -> Check]
    /\ crossed \subseteq Users

Init ==
    /\ AccountsInit
    /\ perms = [c \in Roles |-> Perms]
    /\ cache = [u \in Users |-> [g \in 1 .. MaxGen |-> NoEntry]]
    /\ check = [k \in Checks |-> NoCheck]
    /\ crossed = {}

Effective(u) ==
    Preset[user[u].role] \cup IF user[u].custom = NoRole THEN {} ELSE perms[user[u].custom]
InFlight(u) == \E k \in Checks : check[k].of = u /\ check[k].at \in {"resolve", "role", "fill"}

\* clearPermissionCache; a check in flight may fill the cache again with what it has read before.
Clear(entries) ==
    /\ cache' = [u \in Users |-> [g \in 1 .. MaxGen |->
                    IF <<u, g>> \in entries THEN NoEntry ELSE cache[u][g]]]
    /\ crossed' = crossed \cup {e[1] : e \in {f \in entries : InFlight(f[1])}}
    /\ UNCHANGED <<perms, check>>

Unrelated == UNCHANGED <<perms, cache, check, crossed>>

-----------------------------------------------------------------------------
(* A request that needs a permission *)

\* expressAuthenticate; GET /users/:id/permissions reads the account in its handler.
Authenticate(k, u) ==
    /\ check[k].at = "idle" /\ Found(u) /\ user[u].active
    /\ check' = [check EXCEPT ![k] = [NoCheck EXCEPT !.at = "resolve", !.of = u, !.row = user[u]]]
    /\ UNCHANGED <<accounts, perms, cache, crossed>>

\* permCache.set
Fill(k, ps) ==
    LET c == check[k] IN
    /\ cache' = [cache EXCEPT ![c.of][c.row.gen] = [perms |-> ps, left |-> TTL, age |-> c.age]]
    /\ check' = [check EXCEPT ![k].at = "granted", ![k].perms = {}]

Cached(k) == cache[check[k].of][check[k].row.gen]

\* getUserPermissions: an entry that has not expired answers at once.
Hit(k) ==
    /\ check[k].at = "resolve" /\ Cached(k).left > 0
    /\ check' = [check EXCEPT ![k].at = "granted", ![k].age = Cached(k).age]
    /\ UNCHANGED <<accounts, perms, cache, crossed>>

\* Without one the preset is taken, and the custom role is looked up.
Miss(k) ==
    LET c == check[k] IN
    /\ c.at = "resolve" /\ Cached(k).left = 0
    /\ \/ c.row.custom = NoRole /\ Fill(k, Preset[c.row.role])
       \/ /\ c.row.custom # NoRole
          /\ check' = [check EXCEPT ![k].at = "role"]
          /\ UNCHANGED cache
    /\ UNCHANGED <<accounts, perms, crossed>>

\* The role is read; without it, or when that fails, the preset is all.
ReadRole(k) ==
    LET c == check[k] IN
    /\ c.at = "role"
    /\ \E extra \in {{}, IF c.row.custom \in defined THEN perms[c.row.custom] ELSE {}} :
          check' = [check EXCEPT ![k].at = "fill", ![k].perms = Preset[c.row.role] \cup extra]
    /\ UNCHANGED <<accounts, perms, cache, crossed>>

FillCache(k) ==
    /\ check[k].at = "fill"
    /\ Fill(k, check[k].perms)
    /\ UNCHANGED <<accounts, perms, crossed>>

\* The handler behind requirePermission has run.
Served(k) ==
    /\ check[k].at = "granted"
    /\ check' = [check EXCEPT ![k] = NoCheck]
    /\ UNCHANGED <<accounts, perms, cache, crossed>>

\* Time passes for the cache and for the checks in flight.
Tick ==
    /\ \E u \in Users, g \in 1 .. MaxGen : cache[u][g].left > 0
    /\ \A k \in Checks : check[k].at \in {"resolve", "role", "fill"} => check[k].age < MaxAwait
    /\ cache' = [u \in Users |-> [g \in 1 .. MaxGen |->
                   IF cache[u][g].left <= 1 THEN NoEntry
                   ELSE [cache[u][g] EXCEPT !.left = @ - 1, !.age = @ + 1]]]
    /\ check' = [k \in Checks |->
                   IF check[k].at \in {"idle", "granted"} THEN check[k]
                   ELSE [check[k] EXCEPT !.age = @ + 1]]
    /\ UNCHANGED <<accounts, perms, crossed>>

-----------------------------------------------------------------------------
(* Changes of accounts and roles *)

\* Mutant: PATCH /users/:id/role leaves the cache alone.
ClearsPut(r) == job[r].kind = "put"

\* PUT /users/:id and PATCH /users/:id/role clear the entry, the other writers do not.
Clears(r) == job[r].kind \in {"put", "assign"}

AnswerClear(r) ==
    LET u == job[r].of IN
    /\ Answer(r)
    /\ IF Clears(r) THEN Clear({<<u, job[r].copies[u].gen>>}) ELSE Unrelated

\* DELETE /roles/:id clears the entry of each user it has taken the role from.
DropClear(r) ==
    LET u == job[r].of IN UserCleared(r) /\ Clear({<<u, job[r].copies[u].gen>>})

\* PUT /roles/:id: the role is found, saved, its users are listed, their entries cleared.
PutRole(r, c, ps) ==
    /\ c \in defined
    /\ Accept(r, [NoJob EXCEPT !.kind = "role", !.at = "saveRole", !.role = c, !.want = ps], {}, {})
    /\ UNCHANGED <<user, base, Rest, perms, cache, check, crossed>>

SaveRole(r) ==
    LET c == job[r].role IN
    /\ job[r].at = "saveRole"
    /\ perms' = [perms EXCEPT ![c] = job[r].want]
    /\ defined' = defined \cup {c}
    /\ job' = [job EXCEPT ![r].at = "listRole"]
    /\ UNCHANGED <<user, born, started, code, issued, base, asked, lone, raced, seeded,
                   cache, check, crossed>>

ListRole(r) ==
    /\ job[r].at = "listRole"
    /\ job' = [job EXCEPT ![r].at = "clearRole",
                          ![r].copies = user, ![r].want = {},
                          ![r].todo = {u \in Users : Found(u) /\ user[u].custom = job[r].role}]
    /\ UNCHANGED <<user, born, defined, started, code, issued, base, asked, lone, raced, seeded,
                   perms, cache, check, crossed>>

ClearRole(r) ==
    /\ job[r].at = "clearRole"
    /\ UNCHANGED <<user, started, raced, Rest>>
    /\ Leave(r, user, TRUE)
    /\ Clear({<<u, job[r].copies[u].gen>> : u \in job[r].todo})

-----------------------------------------------------------------------------
\* A failure after the role was saved leaves the entries of its users.
AbandonUncleared(r) ==
    /\ Abandon(r)
    /\ crossed' = IF job[r].at \in {"listRole", "clearRole"} THEN Users ELSE crossed
    /\ UNCHANGED <<perms, cache, check>>

Next ==
    \/ \E r \in Reqs :
          \/ Begin(r) /\ Unrelated
          \/ Continue(r) /\ Unrelated
          \/ AbandonUncleared(r)
          \/ AnswerClear(r) \/ DropClear(r)
          \/ \E c \in Roles, ps \in SUBSET Perms : PutRole(r, c, ps)
          \/ SaveRole(r) \/ ListRole(r) \/ ClearRole(r)
    \/ \E u \in Users : Authorize(u) /\ Unrelated
    \/ ExpireCode /\ Unrelated
    \/ \E k \in Checks :
          \/ \E u \in Callers : Authenticate(k, u)
          \/ Hit(k) \/ Miss(k) \/ ReadRole(k) \/ FillCache(k) \/ Served(k)
    \/ Tick

Spec == Init /\ [][Next]_vars

-----------------------------------------------------------------------------
(* Properties *)

\* "Clears their permission cache immediately so the change takes effect on the next request"
\* (api-reference/platform-api/users.md): once every change of an account or of its role has been
\* answered, the cache holds no permission the account has lost - unless a check was in flight when
\* the entry was cleared, writers of the account overlapped, or one failed after its save.
ChangeTakesEffect ==
    \A u \in Users \ (raced \cup crossed) :
        LET entry == cache[u][user[u].gen]
            Pending(r) == \/ job[r].at \in {"answer", "clear"} /\ job[r].of = u
                          \/ job[r].at \in {"listRole", "clearRole"}
        IN
        Found(u) /\ entry.left > 0 /\ (\A r \in Reqs : ~Pending(r)) => entry.perms \subseteq Effective(u)

\* "cached per-user for 60 s": however changes, failures and checks overlap, no request is served
\* under a reading of its account older than the entry's life and one check in flight.
GrantsAreRecent == \A k \in Checks : check[k].at = "granted" => check[k].age <= TTL + MaxAwait

\* The cache serves what the accounts grant: at once after a change that met no check, and after the
\* entry's life in any case.
PermissionsInv == TypeOK /\ ChangeTakesEffect /\ GrantsAreRecent
=============================================================================
