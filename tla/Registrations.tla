---------------------------- MODULE Registrations ----------------------------
(***************************************************************************)
(* What SDK clients do to projects (platform/api/src/routes/sdk.ts):       *)
(* POST /sdk/register makes or adjusts a project, its environment, the     *)
(* registration of its service and the Application from which ArgoCD       *)
(* deploys it; /sdk/deregister and /sdk/heartbeat change the registration. *)
(* The requests of the portal (Projects) run beside them on the same rows. *)
(* Bound: a project has one service, named as the project.                 *)
(***************************************************************************)
EXTENDS Projects

VARIABLES
    regs, \* the table service_registrations, in the order of the insertions
    apps  \* the Application of each namespace: the repository it deploys and its version

Reg == [of : Ids, env : Nat, status : {"online", "offline"}]
NoApp == [repo |-> None, version |-> 0]
Places == Names \X {EnvNames[k] : k \in DOMAIN EnvNames}

portal == <<project, envs, member, started>>
vars == <<project, envs, member, job, started, lone, raced, invited, regs, apps>>

TypeOK ==
    /\ ProjectsTypeOK
    /\ regs \in Seq(Reg) /\ \A i \in DOMAIN regs : regs[i].env \in DOMAIN envs
    /\ apps \in [Places -> [repo : Repos \cup {None}, version : 0 .. MaxRequests + 1]]

\* One uuid is as good as another, and so is one name.
AnyId == CHOOSE id \in Ids : TRUE
AnyName == CHOOSE n \in Names : TRUE

\* Nothing, or one project that the portal or a client made, perhaps since renamed.
Init ==
    \E id \in {AnyId}, row \in Row \cup {NoRow}, old \in Names, by \in {"portal", "client"},
       owners \in SUBSET Users, others \in SUBSET Users :
       LET count == IF row = NoRow THEN 0 ELSE IF by = "client" THEN 1 ELSE Len(EnvNames)
           Began(k) == Assigned(id, [row EXCEPT !.name = old], EnvNames[k])
       IN
       /\ (by = "portal" /\ row # NoRow) <=> owners # {}
       /\ others = IF owners = {} THEN {} ELSE Users \ owners
       /\ row = NoRow \/ (row.active /\ row.name = AnyName)
       /\ (by = "portal") => row.domain # Base
       /\ (by = "client") => row.domain # None
       /\ project = [i \in Ids |-> IF i = id THEN row ELSE NoRow]
       /\ envs = [k \in 1 .. count |-> Began(k)]
       /\ member = [i \in Ids |-> [u \in Users |->
                      IF i # id THEN NoMember
                      ELSE IF u \in owners THEN [gen |-> 1, role |-> "owner"]
                      ELSE IF u \in others THEN [gen |-> 1, role |-> "viewer"] ELSE NoMember]]
       /\ invited = [i \in Ids |-> IF i = id THEN owners \cup others ELSE {}]
       /\ regs = IF by = "portal" \/ count = 0 THEN <<>>
                 ELSE <<[of |-> id, env |-> 1, status |-> "online"]>>
       /\ apps = [p \in Places |->
                    IF count = 1 /\ row.repo # None /\ by = "client" /\ p = <<old, EnvNames[1]>>
                    THEN [repo |-> row.repo, version |-> 1] ELSE NoApp]
       /\ job = [r \in Reqs |-> NoJob] /\ started = 0
       /\ lone = {} /\ raced = FALSE

-----------------------------------------------------------------------------
(* POST /sdk/register: the project *)

\* The copy the handler makes of a row: a given domain replaces the project's, a given
\* repository is kept when the project has none.
Adjusted(row, domain, repo) ==
    [row EXCEPT !.domain = IF domain = None THEN @ ELSE domain,
                !.repo = IF @ = None THEN repo ELSE @]

\* Mutant: a repository that is not the project's is ignored.
AgreesAlways(row, repo) == TRUE

\* "SDK repositoryUrl does not match project repository on the server"
Agrees(row, repo) == repo = None \/ row.repo \in {None, repo}

Register(r, n, name, domain, repo) ==
    LET asking == [NoJob EXCEPT !.kind = "register", !.name = name, !.asked = repo]
        new == [name |-> n, domain |-> IF domain = None THEN Base ELSE domain,
                repo |-> repo, active |-> TRUE]
    IN
    \/ /\ Named(n) = {}
       /\ Accept(r, [asking EXCEPT !.at = "insert", !.copy = new])
    \/ \E id \in Named(n) :
          LET copy == Adjusted(project[id], domain, repo) IN
          /\ Agrees(project[id], repo)
          /\ Accept(r, [asking EXCEPT !.at = IF copy = project[id] THEN "findEnv" ELSE "select",
                                      !.id = id, !.copy = copy])

RegisterInserts(r) == job[r].kind = "register" /\ Insert(r, "findEnv")
RegisterUpdates(r) == job[r].kind = "register" /\ Update(r, "findEnv")

-----------------------------------------------------------------------------
(* POST /sdk/register: the environment *)

EnvsNamed(j) == {i \in EnvsOf(j.id) : envs[i].name = j.name}

\* "Force server-owned namespace/domain": what the handler puts in the place of the row found.
Forced(j, env) == Assigned(j.id, j.copy, j.name)

FindEnv(r) ==
    LET j == job[r] IN
    /\ j.at = "findEnv"
    /\ \/ /\ EnvsNamed(j) = {}
          /\ Become(r, [j EXCEPT !.at = "insertEnv", !.place = Assigned(j.id, j.copy, j.name)])
       \/ \E i \in EnvsNamed(j) :
             LET place == Forced(j, envs[i]) IN
             Become(r, [j EXCEPT !.at = IF place = envs[i] THEN "findReg" ELSE "selectEnv",
                                 !.env = i, !.place = place])
    /\ UNCHANGED portal /\ UNCHANGED <<regs, apps>>

InsertEnv(r) ==
    /\ job[r].at = "insertEnv"
    /\ envs' = Append(envs, job[r].place)
    /\ Become(r, [job[r] EXCEPT !.at = "findReg", !.env = Len(envs) + 1])
    /\ UNCHANGED <<project, member, started, regs, apps>>

SelectEnv(r) ==
    /\ job[r].at = "selectEnv"
    /\ Become(r, SaveEnv(job[r], job[r].env, job[r].place))
    /\ UNCHANGED portal /\ UNCHANGED <<regs, apps>>

ForceEnv(r) == job[r].kind = "register" /\ UpdateEnv(r, "findReg") /\ UNCHANGED <<regs, apps>>

-----------------------------------------------------------------------------
(* The registration *)

RegsAt(j) == {i \in DOMAIN regs : regs[i].of = j.id /\ regs[i].env = j.env}

FindReg(r) ==
    LET j == job[r] IN
    /\ j.at = "findReg"
    /\ \/ RegsAt(j) = {} /\ Go(r, "insertReg")
       \/ \E i \in RegsAt(j) : Become(r, [j EXCEPT !.at = "selectReg", !.reg = i])
    /\ UNCHANGED portal /\ UNCHANGED <<regs, apps>>

\* What follows: with a repository the Application, unless the body says gitops: false; otherwise a
\* Deployment, which is left out here.
AfterReg(j) ==
    {"answer"} \cup (IF j.kind = "register" /\ j.copy.repo # None THEN {"getApp"} ELSE {})

InsertReg(r) ==
    LET j == job[r] IN
    /\ j.at = "insertReg"
    /\ regs' = Append(regs, [of |-> j.id, env |-> j.env, status |-> "online"])
    /\ \E next \in AfterReg(j) : Become(r, [j EXCEPT !.at = next, !.reg = Len(regs) + 1])
    /\ UNCHANGED portal /\ UNCHANGED apps

\* save selects the row, and writes the status only if it is not the handler's already.
SelectReg(r) ==
    /\ job[r].at = "selectReg"
    /\ Become(r, [job[r] EXCEPT !.at = "updateReg", !.status = regs[job[r].reg].status])
    /\ UNCHANGED portal /\ UNCHANGED <<regs, apps>>
UpdateReg(r) ==
    LET j == job[r]
        status == IF j.kind = "deregister" THEN "offline" ELSE "online"
    IN
    /\ j.at = "updateReg"
    /\ regs' = [regs EXCEPT ![j.reg].status = IF j.status = status THEN @ ELSE status]
    /\ \E next \in AfterReg(j) : Go(r, next)
    /\ UNCHANGED portal /\ UNCHANGED apps

\* POST /sdk/deregister: any registration of the project's service, whatever its environment.
Deregister(r, n) ==
    \E id \in Named(n), i \in DOMAIN regs :
       /\ regs[i].of = id
       /\ Accept(r, [NoJob EXCEPT !.kind = "deregister", !.at = "selectReg", !.id = id, !.reg = i])

\* POST /sdk/heartbeat names a registration; one that names none finds any.
Beat(r) ==
    \E i \in DOMAIN regs :
       Accept(r, [NoJob EXCEPT !.kind = "beat", !.at = "selectReg", !.id = regs[i].of, !.reg = i])

-----------------------------------------------------------------------------
(* The Application of ArgoCD *)

PlaceOf(j) == <<j.place.ns, j.name>>

\* Whatever fails in the read and the replacement counts as: there is none yet.
GetApp(r) ==
    LET version == apps[PlaceOf(job[r])].version IN
    /\ job[r].at = "getApp"
    /\ \/ version # 0 /\ Become(r, [job[r] EXCEPT !.at = "replaceApp", !.app = version])
       \/ Go(r, "createApp")
    /\ UNCHANGED portal /\ UNCHANGED <<regs, apps>>

\* The Application is written, and the answer says so.
Deploys(r) ==
    LET j == job[r] IN
    /\ apps' = [apps EXCEPT ![PlaceOf(j)] = [repo |-> j.copy.repo, version |-> j.no]]
    /\ Become(r, [j EXCEPT !.at = "answer", !.gitops = "written"])

\* replace carries the version read.
ReplaceApp(r) ==
    /\ job[r].at = "replaceApp"
    /\ \/ apps[PlaceOf(job[r])].version = job[r].app /\ Deploys(r)
       \/ Go(r, "createApp") /\ UNCHANGED apps
    /\ UNCHANGED portal /\ UNCHANGED regs

\* create fails where there is one; its failure is in the answer, which is 201 all the same.
CreateApp(r) ==
    /\ job[r].at = "createApp"
    /\ \/ apps[PlaceOf(job[r])] = NoApp /\ Deploys(r)
       \/ Go(r, "answer") /\ UNCHANGED apps
    /\ UNCHANGED portal /\ UNCHANGED regs

-----------------------------------------------------------------------------
ClientBegins(r) ==
    /\ Free(r)
    /\ \/ \E n \in Names, domain \in Domains \cup {None}, repo \in Repos \cup {None} :
             Register(r, n, EnvNames[1], domain, repo)
       \/ \E n \in Names : Deregister(r, n)
       \/ Beat(r)

ClientGoesOn(r) == RegisterInserts(r) \/ RegisterUpdates(r)

Step(r) ==
    \/ /\ PortalBegins(r) \/ PortalGoesOn(r) \/ ClientBegins(r) \/ ClientGoesOn(r) \/ Answer(r) \/ Abandon(r)
       /\ UNCHANGED <<regs, apps>>
    \/ FindEnv(r) \/ InsertEnv(r) \/ SelectEnv(r) \/ ForceEnv(r)
    \/ FindReg(r) \/ InsertReg(r) \/ SelectReg(r) \/ UpdateReg(r)
    \/ GetApp(r) \/ ReplaceApp(r) \/ CreateApp(r)

Next == \E r \in Reqs : Step(r) /\ Observe
Spec == Init /\ [][Next]_vars

-----------------------------------------------------------------------------
(* Properties *)

\* Registering finds what is there: a project has one environment of a name, previews aside, and an
\* environment one registration of the service, unless two requests that touch environments overlapped.
NoDuplicates ==
    ~raced =>
       /\ \A i, k \in DOMAIN envs :
             envs[i].of = envs[k].of /\ envs[i].name = envs[k].name /\ envs[i].name # Preview => i = k
       /\ \A i, k \in DOMAIN regs : regs[i].env = regs[k].env => i = k

Registered(r) == r \in lone /\ job[r].kind = "register" /\ job[r].at = "answer"

\* "Git origin: SDK must match the project repo on the server": a client that is told it is
\* registered, and met no other writer, has named the repository the project has, or none.
OriginAgreed ==
    \A r \in Reqs : Registered(r) /\ job[r].asked # None => project[job[r].id].repo = job[r].asked

\* "namespace is ALWAYS server-assigned": a client that is told it is registered, and met no
\* other writer, has its environment where the server assigns it for the project as it is now and
\* its registration online; if it is told of an Application, that deploys the project's repository.
PlacesAssigned ==
    \A r \in Reqs : Registered(r) =>
        LET j == job[r] IN
        /\ envs[j.env] = Assigned(j.id, project[j.id], j.name)
        /\ regs[j.reg] = [of |-> j.id, env |-> j.env, status |-> "online"]
        /\ j.gitops = "written" => project[j.id].repo # None /\ apps[PlaceOf(j)].repo = project[j.id].repo

\* A registered client, its environment, its registration and its Application agree with the project,
\* and what is answered about a project is so.
RegistrationsInv == TypeOK /\ NoDuplicates /\ OriginAgreed /\ PlacesAssigned /\ ProjectsInv
=============================================================================
