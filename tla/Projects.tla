------------------------------ MODULE Projects ------------------------------
(***************************************************************************)
(* Projects, their environments and their members under the requests of    *)
(* platform/api/src/routes/projects.ts.  A handler works over several      *)
(* statements, each of which ends an action; save writes the columns in    *)
(* which the handler's copy differs from what it selects (EntitySave) and  *)
(* inserts the copy of a row that is gone.  The namespace the server       *)
(* assigns to an environment is named here by the project name it is made  *)
(* of, its host by that name and the domain below which it lies.           *)
(***************************************************************************)
EXTENDS Naturals, Sequences, FiniteSets, EntitySave

CONSTANTS
    Ids,        \* uuids of projects
    Names,      \* names of projects
    EnvNames,   \* the environments that POST /projects makes, in its order
    Domains,    \* domains of projects
    Base,       \* DOMAIN, below which a project without a domain lies
    Repos,      \* git repositories
    None,       \* nothing
    Users,      \* users of the platform
    Admins,     \* its administrators, whom no membership binds
    Leads,      \* its tech leads
    Reqs,       \* slots for requests
    MaxRequests \* bound: requests ever accepted

ASSUME ProjectsAssumption ==
    /\ None \notin Ids \cup Names \cup Domains \cup Repos \cup Users
    /\ Base \notin Domains \cup {None}
    /\ Admins \subseteq Users /\ Leads \subseteq Users
    /\ EnvNames \in Seq(STRING) \ {<<>>} /\ MaxRequests \in Nat
    /\ \A k, m \in DOMAIN EnvNames : EnvNames[k] = EnvNames[m] => k = m
    /\ Ids # {}

VARIABLES
    project, \* the table projects
    envs,    \* the table environments, in the order of the insertions
    member,  \* the table project_members, unique for a project and a user
    job,     \* what each request does
    started, \* requests accepted so far
    lone,    \* history: requests that have had what they touch to themselves
    raced,   \* history: two requests that touch environments have overlapped
    invited  \* history: users somebody has made members, and no lone revocation has removed

Row == [name : Names, domain : Domains \cup {Base, None}, repo : Repos \cup {None}, active : BOOLEAN]
NoRow == [name |-> None, domain |-> None, repo |-> None, active |-> FALSE]
Preview == "preview"
EnvName == {EnvNames[k] : k \in DOMAIN EnvNames} \cup {Preview}
Env == [of : Ids, name : EnvName, ns : Names \cup {None},
        host : (Names \cup {None}) \X (Domains \cup {Base})]
NoEnv == [of |-> None, name |-> "", ns |-> None, host |-> <<None, None>>]

\* PROJECT_ROLE_RANK
Rank == [viewer |-> 1, developer |-> 2, devops |-> 3, owner |-> 4]
Roles == DOMAIN Rank
\* gen stands for the uuid: the number of the request that made the membership.
Member == [gen : 0 .. MaxRequests + 1, role : Roles]
NoMember == [gen |-> 0, role |-> "viewer"]

Kinds == {"none", "create", "put", "delete", "preview", "grant", "role", "revoke",
          "register", "deregister", "beat"}
NoJob == [kind |-> "none", no |-> 0, at |-> "idle", id |-> None, user |-> None, asked |-> None,
          copy |-> NoRow, selected |-> NoRow, moved |-> FALSE,
          todo |-> {}, env |-> 0, name |-> "", place |-> NoEnv, was |-> NoEnv,
          held |-> NoMember, found |-> NoMember,
          reg |-> 0, status |-> "", app |-> 0, gitops |-> ""]

ProjectsTypeOK ==
    /\ project \in [Ids -> Row \cup {NoRow}]
    /\ envs \in Seq(Env)
    /\ member \in [Ids -> [Users -> Member]]
    /\ \A r \in Reqs :
          /\ job[r].kind \in Kinds /\ job[r].id \in Ids \cup {None}
          /\ job[r].copy \in Row \cup {NoRow} /\ job[r].selected \in Row \cup {NoRow}
          /\ job[r].place \in Env \cup {NoEnv} /\ job[r].was \in Env \cup {NoEnv}
          /\ job[r].held \in Member /\ job[r].found \in Member
    /\ started \in 0 .. MaxRequests
    /\ lone \subseteq Reqs /\ raced \in BOOLEAN
    /\ invited \in [Ids -> SUBSET Users]

-----------------------------------------------------------------------------
(* Names *)

Exists(id) == project[id] # NoRow
Named(n) == {id \in Ids : project[id].name = n}
EnvsOf(id) == {i \in DOMAIN envs : envs[i].of = id}

\* assignedNamespace and assignedEnvHost
Assigned(id, row, name) ==
    [of |-> id, name |-> name, ns |-> row.name,
     host |-> <<row.name, IF row.domain = None THEN Base ELSE row.domain>>]

\* The environment of a preview: previews share a namespace, and their hosts have a form of their own.
PreviewOf(id, row) ==
    [of |-> id, name |-> Preview, ns |-> None,
     host |-> <<None, IF row.domain = None THEN Base ELSE row.domain>>]

\* requireProjectAccess; isGlobalProjectAdmin passes without a membership.
MayAs(a, id, role) ==
    a \in Admins \/ (member[id][a].gen # 0 /\ Rank[member[id][a].role] >= Rank[role])
Owners(id) == {u \in Users : member[id][u].gen # 0 /\ member[id][u].role = "owner"}

-----------------------------------------------------------------------------
(* Requests *)

Go(r, at) == job' = [job EXCEPT ![r].at = at]
Become(r, j) == job' = [job EXCEPT ![r] = j]
End(r) == Become(r, NoJob)

Free(r) == job[r].at = "idle" /\ started < MaxRequests
Accept(r, j) ==
    /\ Free(r)
    /\ started' = started + 1
    /\ Become(r, [j EXCEPT !.no = started + 2])
    /\ UNCHANGED <<project, envs, member>>

\* POST /projects: the name is looked up; a name that is taken is answered 409.
Create(r, a, row) ==
    /\ a \in Admins \cup Leads /\ Named(row.name) = {}
    /\ Accept(r, [NoJob EXCEPT !.kind = "create", !.at = "insert", !.user = a, !.copy = row])

\* PUT /projects/:id: the row is found and changed; what follows depends on the domain.
Put(r, a, id, row) ==
    /\ Exists(id) /\ (MayAs(a, id, "devops") \/ a \in Leads)
    /\ Accept(r, [NoJob EXCEPT !.kind = "put", !.at = "select", !.id = id, !.copy = row,
                               !.moved = row.domain # project[id].domain, !.todo = EnvsOf(id)])

\* DELETE /projects/:id, the soft deletion.
Delete(r, a, id) ==
    /\ Exists(id) /\ a \in Admins
    /\ Accept(r, [NoJob EXCEPT !.kind = "delete", !.at = "select", !.id = id,
                               !.copy = [project[id] EXCEPT !.active = FALSE]])

\* POST /deploy of a preview that names no environment: whoever may deploy makes another one.
DeployPreview(r, id) ==
    /\ Exists(id)
    /\ Accept(r, [NoJob EXCEPT !.kind = "preview", !.at = "insertPreview", !.id = id,
                               !.place = PreviewOf(id, project[id])])

\* POST /projects/:id/members (bound: of projects that exist): the user gets the role, or a membership with it.
Grant(r, a, id, u, role) ==
    LET row == member[id][u] IN
    /\ Exists(id) /\ MayAs(a, id, "owner")
    /\ Accept(r, [NoJob EXCEPT !.kind = "grant", !.at = IF row.gen = 0 THEN "enlist" ELSE "selectMember",
                               !.id = id, !.user = u, !.held = [row EXCEPT !.role = role]])

\* PUT /projects/:id/members/:memberId
ChangeRole(r, a, id, u, role) ==
    LET row == member[id][u] IN
    /\ MayAs(a, id, "owner") /\ row.gen # 0
    /\ Accept(r, [NoJob EXCEPT !.kind = "role", !.at = "selectMember", !.id = id, !.user = u,
                               !.held = [row EXCEPT !.role = role]])

\* DELETE /projects/:id/members/:memberId: of an owner, the owners are counted.
Revoke(r, a, id, u) ==
    LET row == member[id][u] IN
    /\ MayAs(a, id, "owner") /\ row.gen # 0
    /\ Accept(r, [NoJob EXCEPT !.kind = "revoke", !.at = IF row.role = "owner" THEN "count" ELSE "remove",
                               !.id = id, !.user = u, !.held = row])

-----------------------------------------------------------------------------
(* The rows of projects *)

\* INSERT, which the database refuses when the name has been taken since.
Insert(r, next) ==
    LET id == CHOOSE i \in Ids : ~Exists(i) IN
    /\ job[r].at = "insert"
    /\ \E i \in Ids : ~Exists(i)
    /\ IF Named(job[r].copy.name) # {} THEN End(r) /\ UNCHANGED project
       ELSE /\ project' = [project EXCEPT ![id] = job[r].copy]
            /\ Become(r, [job[r] EXCEPT !.at = next, !.id = id])
    /\ UNCHANGED <<envs, member, started>>
InsertProject(r) == job[r].kind = "create" /\ Insert(r, "env")

\* save selects the row; PUT loaded the environments with it, and one inserted since would lose
\* its project, which the database refuses.
Select(r) ==
    /\ job[r].at = "select"
    /\ IF job[r].kind = "put" /\ job[r].todo # EnvsOf(job[r].id) THEN End(r)
       ELSE Become(r, [job[r] EXCEPT !.at = "update", !.selected = project[job[r].id]])
    /\ UNCHANGED <<project, envs, member, started>>

\* UPDATE, refused when another project has the name.
Update(r, next) ==
    LET j == job[r]
        row == Saved(project[j.id], j.selected, j.copy)
    IN
    /\ j.at = "update"
    /\ IF \E i \in Ids \ {j.id} : project[i].name = row.name THEN End(r) /\ UNCHANGED project
       ELSE project' = [project EXCEPT ![j.id] = row] /\ Go(r, next)
    /\ UNCHANGED <<envs, member, started>>

\* After the save of PUT, environments follow a changed domain but not one that was cleared.
UpdateProject(r) ==
    /\ job[r].kind \in {"put", "delete"}
    /\ Update(r, IF job[r].moved /\ job[r].copy.domain # None THEN "envs" ELSE "answer")

-----------------------------------------------------------------------------
(* The rows of environments *)

\* The environments of a new project are inserted one after the other.
MakeEnv(r) ==
    LET k == job[r].env + 1 IN
    /\ job[r].at = "env"
    /\ envs' = Append(envs, Assigned(job[r].id, job[r].copy, EnvNames[k]))
    /\ Become(r, [job[r] EXCEPT !.env = k, !.at = IF k = Len(EnvNames) THEN "owner" ELSE "env"])
    /\ UNCHANGED <<project, member, started>>

InsertPreview(r) ==
    /\ job[r].at = "insertPreview"
    /\ envs' = Append(envs, job[r].place)
    /\ Go(r, "answer")
    /\ UNCHANGED <<project, member, started>>

ListEnvs(r) ==
    /\ job[r].at = "envs"
    /\ Become(r, [job[r] EXCEPT !.at = "next", !.todo = EnvsOf(job[r].id)])
    /\ UNCHANGED <<project, envs, member, started>>

\* save of an environment: the copy and what save selects.
SaveEnv(j, i, place) == [j EXCEPT !.at = "updateEnv", !.env = i, !.place = place, !.was = envs[i]]
NextEnv(r) ==
    LET j == job[r] IN
    /\ j.at = "next"
    /\ IF j.todo = {} THEN Go(r, "answer")
       ELSE \E i \in j.todo :
              Become(r, [SaveEnv(j, i, Assigned(j.id, j.copy, envs[i].name)) EXCEPT !.todo = @ \ {i}])
    /\ UNCHANGED <<project, envs, member, started>>
UpdateEnv(r, next) ==
    LET j == job[r] IN
    /\ j.at = "updateEnv"
    /\ envs' = [envs EXCEPT ![j.env] = Saved(@, j.was, j.place)]
    /\ Go(r, next)
    /\ UNCHANGED <<project, member, started>>
MoveEnv(r) == job[r].kind = "put" /\ UpdateEnv(r, "next")

-----------------------------------------------------------------------------
(* The rows of members *)

\* ensureProjectOwner finds the creator's membership.
EnsureOwner(r) ==
    LET row == member[job[r].id][job[r].user] IN
    /\ job[r].at = "owner"
    /\ Become(r, [job[r] EXCEPT !.held = [row EXCEPT !.role = "owner"],
                                !.at = IF row.gen = 0 THEN "enlist"
                                       ELSE IF row.role = "owner" THEN "answer" ELSE "selectMember"])
    /\ UNCHANGED <<project, envs, member, started>>

\* INSERT of a new membership, refused when the user has got one since.
Enlist(r) ==
    LET j == job[r] IN
    /\ j.at = "enlist"
    /\ IF member[j.id][j.user].gen # 0 THEN End(r) /\ UNCHANGED member
       ELSE /\ member' = [member EXCEPT ![j.id][j.user] = [j.held EXCEPT !.gen = j.no]]
            /\ Go(r, "answer")
    /\ UNCHANGED <<project, envs, started>>

SelectMember(r) ==
    LET j == job[r]
        row == member[j.id][j.user]
    IN
    /\ j.at = "selectMember"
    /\ Become(r, [j EXCEPT !.at = "updateMember", !.found = IF row.gen = j.held.gen THEN row ELSE NoMember])
    /\ UNCHANGED <<project, envs, member, started>>

\* UPDATE of the row selected; a membership that was removed in between is inserted again.
UpdateMember(r) ==
    LET j == job[r]
        row == member[j.id][j.user]
        known == j.found.gen = j.held.gen
    IN
    /\ j.at = "updateMember"
    /\ IF ~known /\ row.gen # 0 THEN End(r) /\ UNCHANGED member
       ELSE /\ member' = [member EXCEPT ![j.id][j.user] =
                            IF ~known THEN j.held
                            ELSE IF @.gen = j.held.gen THEN Saved(@, j.found, j.held) ELSE @]
            /\ Go(r, "answer")
    /\ UNCHANGED <<project, envs, started>>

\* Mutant: a single owner is enough.
CountSome(r) ==
    /\ job[r].at = "count"
    /\ IF Cardinality(Owners(job[r].id)) < 1 THEN End(r) ELSE Go(r, "remove")
    /\ UNCHANGED <<project, envs, member, started>>

\* "Cannot remove the last project owner"
Count(r) ==
    /\ job[r].at = "count"
    /\ IF Cardinality(Owners(job[r].id)) <= 1 THEN End(r) ELSE Go(r, "remove")
    /\ UNCHANGED <<project, envs, member, started>>

Remove(r) ==
    LET j == job[r] IN
    /\ j.at = "remove"
    /\ member' = [member EXCEPT ![j.id][j.user] = IF @.gen = j.held.gen THEN NoMember ELSE @]
    /\ Go(r, "answer")
    /\ UNCHANGED <<project, envs, started>>

-----------------------------------------------------------------------------
Answer(r) == job[r].at = "answer" /\ End(r) /\ UNCHANGED <<project, envs, member, started>>

\* A statement fails, or the process is killed: what was done stays.
Abandon(r) ==
    /\ job[r].at \notin {"idle", "answer"}
    /\ End(r)
    /\ UNCHANGED <<project, envs, member, started>>

\* Bound: PUT gives one column a new value.
Changed(row) ==
    {[row EXCEPT !.name = n] : n \in Names \ {row.name}}
      \cup {[row EXCEPT !.domain = d] : d \in (Domains \cup {None}) \ {row.domain}}
      \cup {[row EXCEPT !.repo = g] : g \in Repos \ {row.repo}}

PortalBegins(r) ==
    /\ Free(r)
    /\ \E a \in Users :
          \/ \E n \in Names, d \in Domains \cup {None} :
                Create(r, a, [name |-> n, domain |-> d, repo |-> None, active |-> TRUE])
          \/ \E id \in Ids :
                \/ \E row \in Changed(project[id]) : Put(r, a, id, row)
                \/ Delete(r, a, id) \/ DeployPreview(r, id)
                \/ \E u \in Users :
                      \/ \E role \in {"owner", "viewer"} : Grant(r, a, id, u, role) \/ ChangeRole(r, a, id, u, role)
                      \/ Revoke(r, a, id, u)

PortalGoesOn(r) ==
    \/ InsertProject(r) \/ Select(r) \/ UpdateProject(r)
    \/ MakeEnv(r) \/ InsertPreview(r) \/ ListEnvs(r) \/ NextEnv(r) \/ MoveEnv(r)
    \/ EnsureOwner(r) \/ Enlist(r) \/ SelectMember(r) \/ UpdateMember(r) \/ Count(r) \/ Remove(r)

-----------------------------------------------------------------------------
(* History *)

Touches(kind) ==
    (IF kind \in {"create", "grant", "role", "revoke"} THEN {"members"} ELSE {})
      \cup (IF kind \in {"create", "put", "delete", "preview", "register"} THEN {"places"} ELSE {})
      \cup (IF kind \in {"register", "deregister"} THEN {"registrations"} ELSE {})

\* Evaluated after an action: what the step has made of the history.
Observe ==
    LET Meet(q, r) == Touches(job'[q].kind) \cap Touches(job'[r].kind)
        begun == {r \in Reqs : job[r].at = "idle" /\ job'[r].at # "idle"}
        removed == {r \in lone : job[r].at = "remove" /\ job'[r].at = "answer"}
        asked == {r \in begun : job'[r].kind = "grant"} \cup {r \in Reqs : job'[r].kind = "create"}
    IN
    /\ lone' = {r \in lone \cup begun :
                  job'[r].at # "idle" /\ \A q \in Reqs \ {r} : Meet(q, r) = {}}
    /\ raced' = (raced \/ \E q, r \in Reqs : q # r /\ "places" \in Meet(q, r))
    /\ invited' = [id \in Ids |->
                     (invited[id] \ {job[r].user : r \in {q \in removed : job[q].id = id}})
                       \cup {job'[r].user : r \in {q \in asked : job'[q].id = id}}]

-----------------------------------------------------------------------------
(* Properties *)

\* "Cannot remove the last project owner": while a revocation has the memberships to itself, a
\* project that has an owner keeps one.
OwnerKept ==
    [][\A r \in lone, id \in Ids :
          job[r].kind = "revoke" /\ job[r].id = id /\ Owners(id) # {} => Owners(id)' # {}]_<<member>>

\* Nobody is a member of a project whom nobody has made one since he was last removed by a
\* revocation that had the memberships to itself.
MembersInvited ==
    \A id \in Ids, u \in Users : member[id][u].gen # 0 => u \in invited[id]

\* When POST /projects answers, the project has each of the environments, whatever else ran, and
\* its creator owns it, if nobody else has changed memberships.
NewProjectComplete ==
    \A r \in Reqs : job[r].kind = "create" /\ job[r].at = "answer" =>
        /\ \A k \in DOMAIN EnvNames : \E i \in EnvsOf(job[r].id) : envs[i].name = EnvNames[k]
        /\ r \in lone => job[r].user \in Owners(job[r].id)

\* When a change of domain is answered that had the project to itself, every environment lies
\* where the server assigns it for the project as it is now.
HostsFollow ==
    \A r \in lone : job[r].kind = "put" /\ job[r].at = "answer" /\ job[r].moved
                    /\ project[job[r].id].domain # None =>
        \A i \in EnvsOf(job[r].id) :
            envs[i] = Assigned(job[r].id, project[job[r].id], envs[i].name)

\* What is answered about a project is so: its members were invited, its environments are all there
\* and lie where its domain says.
ProjectsInv == MembersInvited /\ NewProjectComplete /\ HostsFollow
=============================================================================
