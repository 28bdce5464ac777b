------------------------------ MODULE Accounts ------------------------------
(***************************************************************************)
(* The table users under the requests of platform/api/src/routes/auth.ts,  *)
(* the callbacks of lib/oauth-login.ts and the seeding of lib/             *)
(* seed-admin.ts.  A handler finds the row, works on its copy over one or  *)
(* more awaits (bcrypt, an OAuth provider) and saves the copy; save writes *)
(* the columns that differ from what it selects (EntitySave) and inserts   *)
(* the copy again when its row is gone.  An account is named by its e-mail *)
(* address, which the database keeps unique, and told from an earlier      *)
(* account of that address by its gen, which stands for the uuid.          *)
(***************************************************************************)
EXTENDS Naturals, EntitySave

CONSTANTS
    Users,      \* e-mail addresses
    Admin,      \* ADMIN_EMAIL
    Demo,       \* addresses of the old demo accounts
    Roles,      \* custom roles
    NoRole,     \* no custom role
    Perms,      \* permissions
    Reqs,       \* slots for requests
    MaxGen,     \* bound: accounts ever made for an address
    MaxPw,      \* bound: passwords
    MaxRequests \* bound: writers ever accepted; two steps with a code count as one

ASSUME AccountsAssumption ==
    /\ Admin \in Users /\ Demo \subseteq Users \ {Admin} /\ NoRole \notin Roles
    /\ MaxGen \in Nat \ {0} /\ MaxPw \in Nat \ {0} /\ MaxRequests \in Nat

VARIABLES
    user,    \* the table users
    born,    \* accounts made for each address so far
    defined, \* the custom roles that exist
    job,     \* what each request does
    started, \* requests accepted so far
    code,    \* the authorization code issued to a client of the platform
    issued,  \* history: tokens given for that code
    base,    \* history: each account when its last writer had ended
    asked,   \* history: the columns a writer has asked to change since
    lone,    \* history: the requests that have had their account to themselves
    raced,   \* history: accounts that two requests have written at a time, or a failed one has
    seeded   \* history: the last writer of Admin was a seeding by itself

accounts == <<user, born, defined, job, started, code, issued, base, asked, lone, raced, seeded>>

Columns == {"gen", "active", "role", "custom", "pw"}
Row == [gen : 0 .. MaxGen, active : BOOLEAN, role : {"admin", "developer"},
        custom : Roles \cup {NoRole}, pw : 0 .. MaxPw]
NoUser == [gen |-> 0, active |-> FALSE, role |-> "developer", custom |-> NoRole, pw |-> 0]

Kinds == {"none", "login", "oauth", "self", "put", "assign", "delete", "seed", "role", "drop", "token"}
Stages == {"idle", "exchange", "demo", "admin", "save", "update", "answer", "remove",
           "list", "next", "clear", "saveRole", "listRole", "clearRole", "token"}
Job == [kind : Kinds, at : Stages, of : Users, copies : [Users -> Row], selected : Row,
        todo : SUBSET Users, role : Roles \cup {NoRole}, want : SUBSET Perms]
NoJob == [kind |-> "none", at |-> "idle", of |-> Admin, copies |-> [u \in Users |-> NoUser],
          selected |-> NoUser, todo |-> {}, role |-> NoRole, want |-> {}]
NoCode == [of |-> Admin, gen |-> 0]

AccountsTypeOK ==
    /\ user \in [Users -> Row] /\ base \in [Users -> Row]
    /\ born \in [Users -> 0 .. MaxGen]
    /\ defined \subseteq Roles
    /\ job \in [Reqs -> Job] /\ started \in 0 .. 2 * MaxRequests
    /\ code \in [of : Users, gen : 0 .. MaxGen] /\ issued \in 0 .. 2 * MaxRequests
    /\ asked \subseteq Users \X Columns
    /\ lone \subseteq Reqs /\ raced \subseteq Users /\ seeded \in BOOLEAN

\* Each address has an account of a developer, who may have a custom role.
AccountsInit ==
    /\ defined = Roles
    /\ user \in [Users -> {r \in Row : r.gen = 1 /\ r.active /\ r.pw = 1 /\ r.role = "developer"}]
    /\ born = [u \in Users |-> 1]
    /\ job = [r \in Reqs |-> NoJob] /\ started = 0
    /\ code = NoCode /\ issued = 0
    /\ base = user /\ asked = {} /\ lone = {} /\ raced = {} /\ seeded = FALSE

\* The accounts a request may still write.
Scope(r) ==
    CASE job[r].at \in {"idle", "exchange"} \/ job[r].kind \in {"token", "role"} -> {}
      [] job[r].kind = "drop" -> job[r].todo
      [] job[r].kind = "seed" -> job[r].todo \cup {Admin}
      [] OTHER -> {job[r].of}

Others(r, u) == {q \in Reqs \ {r} : u \in Scope(q)}

\* The request r becomes j; from now on it is a writer of us and asks for the columns of them.
Join(r, j, us, columns) ==
    LET shared == {u \in us : Others(r, u) # {}} IN
    /\ job' = [job EXCEPT ![r] = j]
    /\ asked' = asked \cup (us \X columns)
    /\ raced' = raced \cup shared
    /\ lone' = (IF shared = {} THEN lone \cup {r} ELSE lone \ {r})
                  \ UNION {Others(r, u) : u \in shared}
    /\ seeded' = (seeded /\ Admin \notin us)

Count(n) == started + n <= 2 * MaxRequests /\ started' = started + n
Accept(r, j, us, columns) ==
    /\ job[r].at = "idle"
    /\ Count(IF j.kind = "token" THEN 1 ELSE 2)
    /\ Join(r, j, us, columns)

\* The request has ended.  Where it was the last writer, the account is settled: as the request
\* wanted it, if it had it to itself and did not fail, or else as it is.
Leave(r, wanted, done) ==
    LET last == {u \in Scope(r) : Others(r, u) = {}} IN
    /\ job' = [job EXCEPT ![r] = NoJob]
    /\ base' = [u \in Users |->
                  IF u \notin last THEN base[u]
                  ELSE IF done /\ r \in lone THEN wanted[u] ELSE user'[u]]
    /\ asked' = {a \in asked : a[1] \notin last}
    /\ lone' = lone \ {r}
    /\ seeded' = IF job[r].kind = "seed" THEN done /\ r \in lone ELSE seeded

Rest == <<born, defined, code, issued>>

-----------------------------------------------------------------------------
(* Finding the row *)

Found(u) == user[u].gen # 0
Copy(k, u, row) ==
    [NoJob EXCEPT !.kind = k, !.at = "save", !.of = u, !.copies = [@ EXCEPT ![u] = row]]

\* Mutant: an inactive account may log in and becomes active.
LoginAnyway(r, u) ==
    /\ Found(u) /\ user[u].pw # 0
    /\ Accept(r, Copy("login", u, [user[u] EXCEPT !.active = TRUE]), {u}, {})
    /\ UNCHANGED <<user, base, Rest>>

\* POST /auth/login with the right password; nothing but lastLogin is changed.
Login(r, u) ==
    /\ Found(u) /\ user[u].pw # 0 /\ user[u].active
    /\ Accept(r, Copy("login", u, user[u]), {u}, {})
    /\ UNCHANGED <<user, base, Rest>>

\* PATCH /users/me, which changes name and avatar only, POST /auth/set-password and PUT /users/:id,
\* which may also change the password and the role as the others do.
Change(r, k, u, row, columns) ==
    /\ Found(u)
    /\ Accept(r, Copy(k, u, row), {u}, columns)
    /\ UNCHANGED <<user, base, Rest>>
PatchMe(r, u) == Change(r, "self", u, user[u], {})
SetPassword(r, u, p) == Change(r, "self", u, [user[u] EXCEPT !.pw = p], {"pw"})
PutUser(r, u, active) == Change(r, "put", u, [user[u] EXCEPT !.active = active], {"active"})

\* PATCH /users/:id/role
AssignRole(r, u, role) == Change(r, "assign", u, [user[u] EXCEPT !.role = role], {"role"})
AssignCustom(r, u, custom) == Change(r, "assign", u, [user[u] EXCEPT !.custom = custom], {"custom"})

\* DELETE /users/:id
DeleteUser(r, u) ==
    /\ Found(u)
    /\ Accept(r, [Copy("delete", u, user[u]) EXCEPT !.at = "remove"], {u}, Columns)
    /\ UNCHANGED <<user, base, Rest>>

\* POST /users and POST /users/invite of an address without an account.
CreateUser(r, u, custom) ==
    /\ ~Found(u) /\ born[u] < MaxGen
    /\ born' = [born EXCEPT ![u] = @ + 1]
    /\ Accept(r, Copy("self", u, [gen |-> born[u] + 1, active |-> TRUE, role |-> "developer",
                                custom |-> custom, pw |-> 1]), {u}, Columns)
    /\ UNCHANGED <<user, base, defined, code, issued>>

-----------------------------------------------------------------------------
(* OAuth login *)

\* GET /auth/github/callback and /auth/gitlab/callback with the state of a login that was begun;
\* the state is taken out of the map, and who logs in is the provider's answer.
Callback(r, u) ==
    /\ Accept(r, [NoJob EXCEPT !.kind = "oauth", !.at = "exchange", !.of = u], {}, {})
    /\ UNCHANGED <<user, base, Rest>>

\* The profile has come: the account is found or, without one, made.  An inactive one is refused.
Profile(r) ==
    LET u == job[r].of IN
    /\ job[r].at = "exchange"
    /\ UNCHANGED <<user, defined, started, code, issued>>
    /\ \/ /\ Found(u) /\ user[u].active
          /\ Join(r, Copy("oauth", u, user[u]), {u}, {})
          /\ UNCHANGED <<base, born>>
       \/ /\ Found(u) /\ ~user[u].active
          /\ Leave(r, user, FALSE) /\ UNCHANGED <<raced, born>>
       \/ /\ ~Found(u) /\ born[u] < MaxGen
          /\ born' = [born EXCEPT ![u] = @ + 1]
          /\ Join(r, Copy("oauth", u, [gen |-> born[u] + 1, active |-> TRUE,
                                          role |-> "developer", custom |-> NoRole, pw |-> 0]),
                  {u}, Columns)
          /\ UNCHANGED base

-----------------------------------------------------------------------------
(* The platform as an OAuth provider; bound: one code at a time *)

Authorize(u) ==
    /\ Found(u) /\ code = NoCode /\ \A r \in Reqs : job[r].kind # "token"
    /\ Count(1)
    /\ code' = [of |-> u, gen |-> user[u].gen] /\ issued' = 0
    /\ UNCHANGED <<user, born, defined, job, base, asked, lone, raced, seeded>>

\* Five minutes later.
ExpireCode ==
    /\ code # NoCode /\ code' = NoCode
    /\ UNCHANGED <<user, born, defined, job, started, issued, base, asked, lone, raced, seeded>>

Holder == [NoJob EXCEPT !.kind = "token", !.at = "token", !.of = code.of,
                        !.copies = [@ EXCEPT ![code.of] = [NoUser EXCEPT !.gen = code.gen]]]

\* POST /oauth/token takes the code out of the map before the first await ...
Exchange(r) ==
    /\ code # NoCode /\ code' = NoCode
    /\ Accept(r, Holder, {}, {})
    /\ UNCHANGED <<user, base, born, defined, issued>>

\* ... and signs tokens when the account still exists.
SignTokens(r) ==
    /\ job[r].at = "token"
    /\ issued' = IF user[job[r].of].gen = job[r].copies[job[r].of].gen THEN issued + 1 ELSE issued
    /\ UNCHANGED <<user, born, defined, started, code, raced>>
    /\ Leave(r, user, TRUE)

-----------------------------------------------------------------------------
(* ensureAdminUser: at boot and for GET /users/init-demo *)

Seed(r) ==
    /\ Accept(r, [NoJob EXCEPT !.kind = "seed", !.at = "demo", !.of = Admin, !.todo = Demo],
              Demo \cup {Admin}, Columns)
    /\ UNCHANGED <<user, base, Rest>>

\* The old demo accounts are found and removed one by one; a failing removal is only logged.
RemoveDemo(r, d) ==
    /\ job[r].at = "demo" /\ d \in job[r].todo
    /\ \/ user' = [user EXCEPT ![d] = NoUser]
       \/ user' = user
    /\ job' = [job EXCEPT ![r].todo = @ \ {d}]
    /\ asked' = IF Others(r, d) = {} THEN {a \in asked : a[1] # d} ELSE asked
    /\ base' = IF Others(r, d) = {} THEN [base EXCEPT ![d] = user'[d]] ELSE base
    /\ UNCHANGED <<born, defined, started, code, issued, lone, raced, seeded>>

Repaired(row) ==
    [row EXCEPT !.role = "admin", !.active = TRUE, !.pw = IF row.pw = 0 THEN 1 ELSE row.pw]

\* Then the administrator's account is found and, if need be, repaired, or made.
SeedAdmin(r) ==
    LET row == user[Admin]
        new == [gen |-> born[Admin] + 1, active |-> TRUE, role |-> "admin", custom |-> NoRole, pw |-> 1]
        Save(copy) == /\ job' = [job EXCEPT ![r].at = "save", ![r].copies[Admin] = copy]
                      /\ UNCHANGED <<base, asked, lone, seeded>>
    IN
    /\ job[r].at = "demo" /\ job[r].todo = {}
    /\ UNCHANGED <<user, defined, started, code, issued, raced>>
    /\ \/ Found(Admin) /\ Repaired(row) # row /\ Save(Repaired(row)) /\ UNCHANGED born
       \/ Found(Admin) /\ Repaired(row) = row /\ Leave(r, user, TRUE) /\ UNCHANGED born
       \/ /\ ~Found(Admin) /\ born[Admin] < MaxGen
          /\ born' = [born EXCEPT ![Admin] = @ + 1]
          /\ Save(new)

-----------------------------------------------------------------------------
(* DELETE /roles/:id: its users lose it one by one, then it is removed *)

DropRole(r, c) ==
    /\ c \in defined
    /\ Accept(r, [NoJob EXCEPT !.kind = "drop", !.at = "list", !.role = c], {}, {})
    /\ UNCHANGED <<user, base, Rest>>

ListUsers(r) ==
    LET us == {u \in Users : Found(u) /\ user[u].custom = job[r].role} IN
    /\ job[r].at = "list"
    /\ Join(r, [job[r] EXCEPT !.at = "next", !.todo = us,
                  !.copies = [u \in Users |->
                                 IF u \in us THEN [user[u] EXCEPT !.custom = NoRole] ELSE NoUser]],
            us, {"custom"})
    /\ UNCHANGED <<user, base, started, Rest>>

NextUser(r, u) ==
    /\ job[r].at = "next" /\ u \in job[r].todo
    /\ job' = [job EXCEPT ![r].at = "save", ![r].of = u]
    /\ UNCHANGED <<user, base, started, Rest, asked, lone, raced, seeded>>

\* The role's removal, which the database refuses while an account has the role.
RemoveRole(r) ==
    /\ job[r].at = "next" /\ job[r].todo = {}
    /\ defined' = IF \E u \in Users : user[u].custom = job[r].role THEN defined
                  ELSE defined \ {job[r].role}
    /\ UNCHANGED <<user, born, started, code, issued, raced>>
    /\ Leave(r, user, TRUE)

-----------------------------------------------------------------------------
(* Saving and removing *)

Select(r) ==
    /\ job[r].at = "save"
    /\ job' = [job EXCEPT ![r].at = "update", ![r].selected = user[job[r].of]]
    /\ UNCHANGED <<user, base, started, Rest, asked, lone, raced, seeded>>

\* UPDATE of the row selected, or INSERT when there was none of that uuid; the database refuses
\* a second account of the address and a role that does not exist.
Update(r) ==
    LET j == job[r]
        u == j.of
        new == j.copies[u]
        known == j.selected.gen = new.gen
    IN
    /\ j.at = "update"
    /\ ~known => ~Found(u)
    /\ new.custom = NoRole \/ new.custom \in defined \/ (known /\ j.selected.custom = new.custom)
    /\ user' = [user EXCEPT ![u] =
                  IF ~known THEN new ELSE IF @.gen = new.gen THEN Saved(@, j.selected, new) ELSE @]
    /\ job' = [job EXCEPT ![r].at = IF j.kind = "drop" THEN "clear" ELSE "answer",
                          ![r].selected = NoUser]
    /\ UNCHANGED <<base, started, Rest, asked, lone, raced, seeded>>

Remove(r) ==
    LET u == job[r].of IN
    /\ job[r].at = "remove"
    /\ user' = [user EXCEPT ![u] = IF @.gen = job[r].copies[u].gen THEN NoUser ELSE @]
    /\ Leave(r, [job[r].copies EXCEPT ![u] = NoUser], TRUE)
    /\ UNCHANGED <<started, raced, Rest>>

Answer(r) ==
    /\ job[r].at = "answer"
    /\ UNCHANGED <<user, started, raced, Rest>>
    /\ Leave(r, job[r].copies, TRUE)

\* A user of a dropped role has lost it.
UserCleared(r) ==
    LET u == job[r].of IN
    /\ job[r].at = "clear"
    /\ job' = [job EXCEPT ![r].at = "next", ![r].todo = @ \ {u}]
    /\ asked' = IF Others(r, u) = {} THEN {a \in asked : a[1] # u} ELSE asked
    /\ base' = IF Others(r, u) = {}
               THEN [base EXCEPT ![u] = IF r \in lone THEN job[r].copies[u] ELSE user[u]] ELSE base
    /\ UNCHANGED <<user, started, Rest, lone, raced, seeded>>

\* A statement fails, or the reply to one that took effect is lost: the handler answers 400.
Abandon(r) ==
    /\ job[r].at # "idle"
    /\ UNCHANGED <<user, started, Rest>>
    /\ Leave(r, user, FALSE)
    /\ raced' = IF job[r].at \in {"answer", "clear"} THEN raced \cup {job[r].of} ELSE raced

-----------------------------------------------------------------------------
RoleNames == {"admin", "developer"}

\* Bound: a change of an account gives the column a value it does not have.
Begin(r) ==
    \/ \E u \in Users :
          \/ Login(r, u) \/ PatchMe(r, u) \/ DeleteUser(r, u) \/ Callback(r, u)
          \/ \E p \in 1 .. MaxPw : p # user[u].pw /\ SetPassword(r, u, p)
          \/ PutUser(r, u, ~user[u].active)
          \/ \E n \in RoleNames \ {user[u].role} : AssignRole(r, u, n)
          \/ \E c \in (Roles \cup {NoRole}) \ {user[u].custom} : AssignCustom(r, u, c)
          \/ \E c \in Roles \cup {NoRole} : CreateUser(r, u, c)
    \/ Exchange(r) \/ Seed(r)
    \/ \E c \in Roles : DropRole(r, c)

Continue(r) ==
    \/ Profile(r) \/ SignTokens(r)
    \/ SeedAdmin(r) \/ \E d \in Demo : RemoveDemo(r, d)
    \/ ListUsers(r) \/ RemoveRole(r) \/ \E u \in Users : NextUser(r, u)
    \/ Select(r) \/ Update(r) \/ Remove(r)

-----------------------------------------------------------------------------
(* Properties *)

\* "PUT /users/:id Update a user", and so for every writer: what a request answered, having had
\* the account to itself, is so, and stays so through all later logins, profile changes, role
\* deletions and overlapping requests, in every column that none of them asks to change.  A
\* deactivated account is not active again, a deleted one not back, a revoked role not returned.
NothingUnasked ==
    \A u \in Users, c \in Columns : <<u, c>> \notin asked => user[u][c] = base[u][c]

\* "Ensure exactly one bootstrap login exists": after a seeding that no other writer of the
\* administrator's account met, that account exists, is active, has a password and is admin's.
SeedingRepairs ==
    seeded => user[Admin].gen # 0 /\ user[Admin].active /\ user[Admin].pw # 0
              /\ user[Admin].role = "admin"

\* "Optional validation (we consume it once)": an authorization code gives tokens once, however
\* many exchanges of it overlap.
CodeUsedOnce == issued <= 1

\* Accounts change only as somebody asked, seeding brings the administrator back, codes are used once.
AccountsInv == NothingUnasked /\ SeedingRepairs /\ CodeUsedOnce
=============================================================================
