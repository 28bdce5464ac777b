--------------------------- MODULE ProjectsProofs ---------------------------
(***************************************************************************)
(* Proofs about the places of projects: the Application of an environment  *)
(* (Applications), and projects, environments, members and registrations   *)
(* (Projects, Registrations).                                              *)
(***************************************************************************)
EXTENDS MCRegistrations, FiniteSetTheorems, TLAPS

-----------------------------------------------------------------------------
(* The Application *)

\* Where a job is once it has written the Application.
Wrote == {"sync", "discover", "expose", "readIngress", "putIngress", "poll"}

WriterRow == [at : Steps, service : NamedServices, looks : 0 .. MaxPolls,
              verdict : {"none", "refused", "registered", "deployed", "failed", "late"}]

\* An undisturbed job is the last that wrote the Application, and nothing but its revision is asked
\* for; what Argo CD says of it since is true.
AppsIInv ==
    /\ AppsTypeOK
    /\ \A j \in Writers : /\ writer[j].at \in Wrote => app # NoWriter
                          /\ writer[j].at # "ended" => writer[j].looks < MaxPolls
    /\ \A j \in Writers \ disturbed :
          writer[j].at \in Wrote \/ writer[j].verdict = "deployed" => app = j
    /\ app \notin disturbed =>
          /\ operation \in {NoWriter, app}
          /\ looked /\ argo.sync = "Synced" => runs = app
    /\ VerdictTrue

LooksLess(k) ==
    /\ writer'[k].looks = writer[k].looks
    /\ writer'[k].at # "ended" => writer[k].at # "ended"

LEMMA AppsInitIInv == AppsInit => AppsIInv
<1> SUFFICES ASSUME AppsInit PROVE AppsIInv
  OBVIOUS
<1>1. PICK absent \in SUBSET Writers :
        writer = [j \in Writers |-> [at |-> IF j \in absent THEN "ended" ELSE "get",
                                    service |-> "none", looks |-> 0, verdict |-> "none"]]
  BY DEF AppsInit
<1>2. 0 \in 0 .. MaxPolls /\ 0 < MaxPolls /\ 0 \in 0 .. MaxMishaps
  BY ApplicationsAssumption
<1>3. AppsTypeOK
  BY <1>1, <1>2 DEF AppsInit, AppsTypeOK, NoStatus, NamedServices, Steps
<1> QED
  BY <1>1, <1>2, <1>3 DEF AppsInit, AppsIInv, VerdictTrue, NoStatus, Wrote, Writers

LEMMA AppsStep ==
    ASSUME AppsIInv, [AppsNext]_appsVars
    PROVE  AppsIInv'
<1> USE ApplicationsAssumption
<1>1. CASE UNCHANGED appsVars
  BY <1>1 DEF appsVars, objects, AppsIInv, AppsTypeOK, VerdictTrue
<1>2. ASSUME NEW j \in Writers, GetApplication(j) PROVE AppsIInv'
  <2> USE <1>2 DEF GetApplication, At, To, Mishap, objects, AppsIInv
  <2>1. AppsTypeOK'
    BY DEF AppsTypeOK, Steps
  <2>2. \A k \in Writers : writer'[k].verdict = writer[k].verdict
                           /\ (writer'[k].at \in Wrote => writer[k].at \in Wrote)
    BY DEF AppsTypeOK, Wrote
  <2>3. \A k \in Writers : LooksLess(k)
    BY DEF AppsTypeOK, LooksLess
  <2> QED
    BY <2>1, <2>2, <2>3 DEF VerdictTrue, Writers, LooksLess
<1>3. ASSUME NEW j \in Writers, ReplaceApplication(j) \/ CreateApplication(j) PROVE AppsIInv'
  <2>1. CASE Writes(j)
    <3> USE <1>3, <2>1 DEF Writes, To, At, AppsIInv
    <3>0. writer[j].at \in {"replace", "create"} /\ writer[j].looks < MaxPolls
      BY DEF ReplaceApplication, CreateApplication
    <3>1. UNCHANGED <<ingressRead, misled>> /\ mishaps' \in 0 .. MaxMishaps
      BY DEF ReplaceApplication, CreateApplication, Mishap, AppsTypeOK
    <3>2. AppsTypeOK'
      <4>1. /\ writer' \in [Writers -> [at : Steps, service : NamedServices, looks : 0 .. MaxPolls,
                     verdict : {"none", "refused", "registered", "deployed", "failed", "late"}]]
            /\ argo' \in [sync : {"Unknown", "OutOfSync", "Synced"},
                          health : {"Unknown", "Progressing", "Healthy", "Degraded"}]
        BY DEF AppsTypeOK, NoStatus, Steps
      <4>2. {app', operation', runs'} \subseteq Writers \cup {NoWriter} /\ disturbed' \in SUBSET Writers
        BY DEF AppsTypeOK
      <4>3. /\ looked' \in BOOLEAN /\ health' = health /\ ingress' = ingress
            /\ appRead' \in SUBSET Writers
        OBVIOUS
      <4>4. AppsTypeOK
        OBVIOUS
      <4> HIDE <1>3, <2>1 DEF Writes, To, At, AppsIInv
      <4> QED
        BY <3>1, <4>1, <4>2, <4>3, <4>4 DEF AppsTypeOK
    <3>3. \A k \in Writers : writer'[k].verdict = writer[k].verdict
                             /\ (k # j => writer'[k].at = writer[k].at)
      BY DEF AppsTypeOK
    <3>4. \A k \in Writers \ disturbed' : k # j => app # k
      BY ApplicationsAssumption DEF Writers
    <3>5. \A k \in Writers : writer'[k].looks = writer[k].looks
      BY DEF AppsTypeOK
    <3> QED
      BY <3>0, <3>1, <3>2, <3>3, <3>4, <3>5 DEF VerdictTrue, Writers
  <2>2. CASE (Gives(j) \/ Spoiled("create", j)) /\ UNCHANGED <<ingressRead, misled>> /\ mishaps' \in 0 .. MaxMishaps
    <3> USE <2>2 DEF Gives, Spoiled, Concludes, To, At, objects, AppsIInv
    <3>1. AppsTypeOK'
      BY DEF AppsTypeOK, Steps
    <3>2. \A k \in Writers : /\ writer'[k].verdict # "deployed" \/ writer'[k].verdict = writer[k].verdict
                             /\ writer'[k].at \in Wrote => writer[k].at \in Wrote
      BY DEF AppsTypeOK, Wrote
    <3>3. \A k \in Writers : LooksLess(k)
      BY <1>3 DEF AppsTypeOK, LooksLess, ReplaceApplication, CreateApplication
    <3> QED
      BY <3>1, <3>2, <3>3 DEF VerdictTrue, Writers, LooksLess
  <2> QED
    BY <1>3, <2>1, <2>2 DEF ReplaceApplication, CreateApplication, Mishap, AppsIInv, AppsTypeOK
<1>4. ASSUME NEW j \in Writers, SyncApplication(j) PROVE AppsIInv'
  <2> USE <1>4 DEF SyncApplication, At, To, Mishap, AppsIInv
  <2>1. app # NoWriter /\ app \in Writers
    BY DEF Wrote, AppsTypeOK
  <2>2. AppsTypeOK'
    BY <2>1 DEF AppsTypeOK, Steps
  <2>3. \A k \in Writers : writer'[k].verdict = writer[k].verdict
                           /\ (writer'[k].at \in Wrote <=> writer[k].at \in Wrote)
    BY DEF AppsTypeOK, Wrote
  <2> QED
    BY <2>1, <2>2, <2>3 DEF VerdictTrue, Writers
<1>5. ASSUME NEW j \in Writers, Discover(j) \/ CreateIngress(j) \/ ReadIngress(j) \/ PutIngress(j)
      PROVE  AppsIInv'
  <2> USE <1>5 DEF AppsIInv
  <2>1. UNCHANGED <<app, operation, argo, looked, runs, disturbed, misled>>
    BY DEF Discover, CreateIngress, ReadIngress, PutIngress, objects
  <2>2. AppsTypeOK'
    BY DEF Discover, CreateIngress, ReadIngress, PutIngress, objects, At, To, Mishap, Exposed, Concludes,
           ServiceOf, AppsTypeOK, Steps, NamedServices
  <2>3. \A k \in Writers : /\ writer'[k].verdict # "deployed" \/ writer'[k].verdict = writer[k].verdict
                           /\ writer'[k].at \in Wrote => writer[k].at \in Wrote
    BY DEF Discover, CreateIngress, ReadIngress, PutIngress, At, To, Exposed, Concludes, AppsTypeOK, Wrote
  <2>4. \A k \in Writers : LooksLess(k)
    BY DEF Discover, CreateIngress, ReadIngress, PutIngress, At, To, Exposed, Concludes, AppsTypeOK, LooksLess
  <2> QED
    BY <2>1, <2>2, <2>3, <2>4 DEF VerdictTrue, Writers, LooksLess
<1>6. ASSUME NEW j \in Writers, Look(j) PROVE AppsIInv'
  <2> DEFINE looks == writer[j].looks + 1
  <2>1. /\ writer[j].at = "poll" /\ mishaps' \in 0 .. MaxMishaps
        /\ UNCHANGED <<objects, appRead, ingressRead, disturbed>>
        /\ misled' = misled \cup (IF writer'[j].verdict = "deployed" /\ ~looked THEN {j} ELSE {})
    BY <1>6 DEF Look, At, Mishap, AppsIInv, AppsTypeOK
  <2>2. PICK v \in {"deployed", "failed", "late", "none"} :
          /\ writer' = [writer EXCEPT ![j].looks = looks, ![j].verdict = v,
                                      ![j].at = IF v = "none" THEN "poll" ELSE "ended"]
          /\ v = "deployed" => SyncedAndWell(looks)
          /\ v = "none" => looks # MaxPolls
    BY <1>6 DEF Look
  <2>3. looks \in 1 .. MaxPolls /\ (v = "none" => looks < MaxPolls)
    <3>1. writer[j].looks \in 0 .. MaxPolls /\ writer[j].at # "ended"
      BY <2>1 DEF AppsIInv, AppsTypeOK
    <3>2. writer[j].looks < MaxPolls
      BY <3>1 DEF AppsIInv
    <3>3. looks \in 1 .. MaxPolls
      BY <3>1, <3>2
    <3> HIDE DEF looks
    <3> QED
      BY <2>2, <3>3
  <2>4. \A k \in Writers :
          writer'[k] = IF k = j THEN [writer[j] EXCEPT !.looks = looks, !.verdict = v,
                                                       !.at = IF v = "none" THEN "poll" ELSE "ended"]
                       ELSE writer[k]
    BY <2>2 DEF AppsIInv, AppsTypeOK
  <2> HIDE DEF looks
  <2>0. writer \in [Writers -> WriterRow] /\ writer[j] \in WriterRow
    BY DEF AppsIInv, AppsTypeOK, WriterRow
  <2>5. AppsTypeOK'
    <3>1. [writer[j] EXCEPT !.looks = looks, !.verdict = v,
                            !.at = IF v = "none" THEN "poll" ELSE "ended"] \in WriterRow
      <4> DEFINE at == IF v = "none" THEN "poll" ELSE "ended"
      <4>1. v \in {"none", "refused", "registered", "deployed", "failed", "late"}
            /\ at \in Steps /\ looks \in 0 .. MaxPolls
        BY <2>2, <2>3, ApplicationsAssumption DEF Steps
      <4> HIDE DEF at
      <4>2. [writer[j] EXCEPT !.looks = looks, !.verdict = v, !.at = at] \in WriterRow
        BY <2>0, <4>1 DEF WriterRow
      <4> QED
        BY <4>2 DEF at
    <3>2. writer' \in [Writers -> WriterRow]
      BY <2>0, <2>2, <3>1
    <3> QED
      BY <2>1, <3>2 DEF AppsIInv, AppsTypeOK, WriterRow, objects
  <2>6. /\ writer'[j].verdict = v /\ writer'[j].looks = looks
        /\ writer'[j].at = IF v = "none" THEN "poll" ELSE "ended"
    BY <2>0, <2>4 DEF WriterRow
  <2>7. j \notin disturbed \cup misled' /\ v = "deployed" => app = j /\ runs = j
    BY <2>1, <2>2, <2>6 DEF AppsIInv, Wrote, SyncedAndWell
  <2>8. misled \subseteq misled' /\ (j \notin disturbed /\ v = "deployed" => app = j)
    BY <2>1, <2>2 DEF AppsIInv, Wrote
  <2> QED
    BY <2>1, <2>3, <2>4, <2>5, <2>6, <2>7, <2>8 DEF AppsIInv, VerdictTrue, objects, Wrote, Writers
<1>7. ASSUME Compares PROVE AppsIInv'
  <2> USE <1>7 DEF Compares, AppsIInv
  <2>1. AppsTypeOK'
    BY DEF AppsTypeOK
  <2> QED
    BY <2>1 DEF VerdictTrue, Writers
<1>8. ASSUME Applies PROVE AppsIInv'
  <2> USE <1>8 DEF Applies, AppsIInv
  <2>1. AppsTypeOK'
    BY DEF AppsTypeOK
  <2> QED
    BY <2>1 DEF VerdictTrue, Writers
<1>9. ASSUME PodsTurn PROVE AppsIInv'
  BY <1>9 DEF PodsTurn, AppsIInv, AppsTypeOK, VerdictTrue, Writers
<1> QED
  BY <1>1, <1>2, <1>3, <1>4, <1>5, <1>6, <1>7, <1>8, <1>9 DEF AppsNext

\* A deployment that is told deployed is what Argo CD runs until somebody else writes the
\* Application, for any number of deployments, registrations, looks and calls that fail.
THEOREM VerdictStays == AppsInit /\ [][AppsNext]_appsVars => []AppsInv
<1>1. AppsInit => AppsIInv
  BY AppsInitIInv
<1>2. AppsIInv /\ [AppsNext]_appsVars => AppsIInv'
  BY AppsStep
<1>3. AppsIInv => AppsInv
  BY DEF AppsIInv, AppsInv
<1> QED
  BY <1>1, <1>2, <1>3, PTL

-----------------------------------------------------------------------------
(* Projects, environments, members and registrations *)

PortalStages == {"insert", "env", "owner", "enlist", "selectMember", "updateMember", "select", "update",
                 "envs", "next", "updateEnv", "count", "remove", "insertPreview"}
AppStages == {"getApp", "replaceApp", "createApp"}
RegStages == {"findReg", "insertReg", "selectReg", "updateReg", "getApp", "replaceApp", "createApp"}
AllStages == {"idle", "answer", "findEnv", "insertEnv", "selectEnv"} \cup PortalStages \cup RegStages

JobRow == [kind : Kinds, no : 0 .. MaxRequests + 1, at : AllStages, id : Ids \cup {None},
           user : Users \cup {None}, asked : Repos \cup {None}, copy : Row \cup {NoRow},
           selected : Row \cup {NoRow}, moved : BOOLEAN, todo : SUBSET Nat, env : Nat,
           name : {""} \cup {EnvNames[k] : k \in DOMAIN EnvNames},
           place : Env \cup {NoEnv}, was : Env \cup {NoEnv}, held : Member, found : Member,
           reg : Nat, status : {"", "online", "offline"}, app : 0 .. MaxRequests + 1,
           gitops : {"", "written"}]

Enlisting == {"enlist", "selectMember", "updateMember"}
\* Where a registration is once it has its environment.
Placed == {"selectEnv", "updateEnv"} \cup RegStages \cup {"answer"}

\* What a request is at, by its kind.
StageOK(j) ==
    /\ j.kind = "none" => j.at = "idle"
    /\ j.kind = "create" => j.at \in {"insert", "env", "owner", "answer"} \cup Enlisting
    /\ j.kind = "put" => j.at \in {"select", "update", "envs", "next", "updateEnv", "answer"}
    /\ j.kind = "delete" => j.at \in {"select", "update", "answer"}
    /\ j.kind = "preview" => j.at \in {"insertPreview", "answer"}
    /\ j.kind = "grant" => j.at \in Enlisting \cup {"answer"}
    /\ j.kind = "role" => j.at \in (Enlisting \cup {"answer"}) \ {"enlist"}
    /\ j.kind = "revoke" => j.at \in {"count", "remove", "answer"}
    /\ j.kind = "register" => j.at \in {"insert", "select", "update", "findEnv", "insertEnv"} \cup Placed
    /\ j.kind \in {"deregister", "beat"} => j.at \in {"selectReg", "updateReg", "answer"}

\* What a request knows whoever else is at work: rows of projects, environments and registrations
\* are never deleted, and never another's.
Knows(j) ==
    /\ j.kind # "none" => j.no # 0
    /\ j.kind # "none" /\ j.at # "insert" => j.id \in Ids
    /\ j.kind \in {"create", "grant", "role", "revoke"} => j.user \in Users
    /\ j.kind \in {"create", "put", "delete", "register"} =>
         j.copy \in Row /\ (j.at # "insert" => Exists(j.id))
    /\ j.at = "update" => j.selected \in Row
    /\ j.kind = "preview" => j.at # "insert" /\ Exists(j.id)
    /\ j.kind = "delete" => ~j.moved
    /\ j.kind = "create" /\ j.at = "insert" => j.env = 0
    /\ j.at = "env" => /\ j.env < Len(EnvNames)
                       /\ \A k \in 1 .. j.env : \E i \in EnvsOf(j.id) : envs[i].name = EnvNames[k]
    /\ j.kind = "create" /\ j.at \in Enlisting \cup {"owner", "answer"} =>
         \A k \in DOMAIN EnvNames : \E i \in EnvsOf(j.id) : envs[i].name = EnvNames[k]
    /\ j.kind = "create" /\ j.at \in Enlisting => j.held.role = "owner"
    /\ (j.kind = "create" /\ j.at # "insert") \/ j.at \in Enlisting => j.user \in invited[j.id]
    /\ j.kind = "put" /\ j.at \in {"next", "updateEnv"} => j.todo \subseteq EnvsOf(j.id)
    /\ j.at = "updateEnv" =>
         /\ j.env \in EnvsOf(j.id) /\ j.place \in Env /\ j.was \in Env
         /\ j.place.of = j.id /\ j.was.of = j.id
         /\ j.place.name = envs[j.env].name /\ j.was.name = envs[j.env].name
    /\ j.kind = "register" => j.name \in {EnvNames[k] : k \in DOMAIN EnvNames}
    /\ j.kind = "register" /\ j.at \in Placed => j.env \in EnvsNamed(j)
    /\ j.kind = "register" /\ j.at \in Placed \cup {"insertEnv"} => j.place = Assigned(j.id, j.copy, j.name)
    /\ j.kind = "register" /\ j.asked # None => j.copy.repo = j.asked
    /\ j.at \in AppStages => j.copy.repo # None
    /\ j.at \in {"selectReg", "updateReg"} => j.reg \in DOMAIN regs
    /\ j.kind = "register" /\ j.at \in {"selectReg", "updateReg", "answer"} \cup AppStages =>
         j.reg \in RegsAt(j)

\* What it carries to its last step: the environment of a preview, and that it wrote an Application.
PreviewPlace(id, place) == place \in Env /\ place.of = id /\ place.name = Preview
Carries(j) ==
    /\ j.at = "insertPreview" => PreviewPlace(j.id, j.place)
    /\ j.gitops = "written" => j.kind = "register" /\ j.at = "answer" /\ j.copy.repo # None

\* What it knows as long as no two requests that touch environments have met.
Finds(j) ==
    /\ j.at = "env" => \A i \in EnvsOf(j.id) : \E k \in 1 .. j.env : envs[i].name = EnvNames[k]
    /\ j.at = "insertEnv" => EnvsNamed(j) = {}
    /\ j.at = "insertReg" => RegsAt(j) = {}

\* What it knows while nobody else touches what it touches: of the memberships ...
KnowsMembers(j) ==
    LET row == member[j.id][j.user] IN
    /\ j.kind = "create" /\ j.at \in {"selectMember", "updateMember"} => j.held.gen = row.gen /\ row.gen # 0
    /\ j.kind = "create" /\ j.at = "updateMember" => j.found = row
    /\ j.kind = "create" /\ j.at = "answer" => j.user \in Owners(j.id)
    /\ j.at \in {"count", "remove"} => j.held = row
    /\ j.at = "remove" /\ j.user \in Owners(j.id) => \E w \in Owners(j.id) : w # j.user

\* ... of the project and its environments, when it moves them ...
KnowsPlaces(j) ==
    LET Moved(i) == envs[i] = Assigned(j.id, j.copy, envs[i].name) IN
    /\ j.at = "update" => j.selected = project[j.id]
    /\ j.kind = "put" /\ j.at \in {"envs", "next", "updateEnv"} =>
         j.moved /\ j.copy.domain # None /\ project[j.id] = j.copy
    /\ j.at = "updateEnv" => j.was = envs[j.env] /\ j.place = Assigned(j.id, j.copy, envs[j.env].name)
    /\ j.at = "next" => \A i \in EnvsOf(j.id) \ j.todo : Moved(i)
    /\ j.kind = "put" /\ j.at = "updateEnv" => \A i \in EnvsOf(j.id) \ (j.todo \cup {j.env}) : Moved(i)
    /\ j.kind = "put" /\ j.at = "answer" /\ j.moved =>
         /\ project[j.id] = j.copy
         /\ j.copy.domain # None => \A i \in EnvsOf(j.id) : Moved(i)

\* ... and of the registration and the Application.
KnowsRegs(j) ==
    LET online == regs[j.reg].status = "online" IN
    j.kind = "register" =>
    /\ j.at \notin {"insert", "select", "update"} => project[j.id] = j.copy
    /\ j.at \in RegStages \cup {"answer"} => envs[j.env] = j.place
    /\ j.at = "updateReg" /\ j.status = "online" => online
    /\ j.at \in AppStages \cup {"answer"} => online
    /\ j.at = "answer" /\ j.gitops = "written" => apps[PlaceOf(j)].repo = j.copy.repo

Meets(j, k) == Touches(j.kind) \cap Touches(k.kind)

\* Who is alone meets nobody, and two that touch environments have raced.
Apart ==
    /\ \A r \in lone : job[r].at # "idle" /\ \A q \in Reqs \ {r} : Meets(job[q], job[r]) = {}
    /\ ~raced => \A r, q \in Reqs : q # r => "places" \notin Meets(job[q], job[r])

Consistent ==
    /\ \A i \in DOMAIN envs : Exists(envs[i].of)
    /\ \A i \in DOMAIN regs : regs[i].env \in DOMAIN envs /\ regs[i].of = envs[regs[i].env].of

OwnOK(r) == LET j == job[r] IN
    /\ StageOK(j) /\ Knows(j) /\ Carries(j)
    /\ ~raced => Finds(j)
    /\ r \in lone => KnowsMembers(j) /\ KnowsPlaces(j) /\ KnowsRegs(j)

RegistrationsIInv ==
    /\ TypeOK /\ job \in [Reqs -> JobRow]
    /\ Consistent /\ Apart /\ NoDuplicates /\ MembersInvited
    /\ \A r \in Reqs : OwnOK(r)

\* What a step of r leaves to others: what its kind does not touch, and everybody's jobs.
Frame(r) == LET touched == Touches(job[r].kind) IN
    /\ \A q \in Reqs \ {r} : job'[q] = job[q]
    /\ "members" \notin touched => member' = member
    /\ "places" \notin touched =>
         UNCHANGED <<project, envs, apps>> /\ DOMAIN regs' = DOMAIN regs
    /\ "registrations" \notin touched => \A i \in DOMAIN regs :
         regs'[i].status \in {regs[i].status, "online"}

\* Rows that stay, and whose they are.
Grows ==
    /\ \A id \in Ids : Exists(id) => Exists(id)'
    /\ DOMAIN envs \subseteq DOMAIN envs'
    /\ \A i \in DOMAIN envs : envs'[i].of = envs[i].of /\ envs'[i].name = envs[i].name
    /\ DOMAIN regs \subseteq DOMAIN regs'
    /\ \A i \in DOMAIN regs : regs'[i].of = regs[i].of /\ regs'[i].env = regs[i].env

\* Whom a step of r makes a member, and whom it removes.
Joins(r) == LET j == job[r] IN
    /\ \A id \in Ids, u \in Users : member'[id][u].gen # 0 =>
         member[id][u].gen # 0 \/ (j.at \in Enlisting /\ id = j.id /\ u = j.user)
    /\ r \in lone /\ j.at = "remove" /\ job'[r].at = "answer" => member'[j.id][j.user].gen = 0

RowsOK ==
    /\ project \in [Ids -> Row \cup {NoRow}] /\ envs \in Seq(Env) /\ member \in [Ids -> [Users -> Member]]
    /\ started \in 0 .. MaxRequests /\ regs \in Seq(Reg)
    /\ apps \in [Places -> [repo : Repos \cup {None}, version : 0 .. MaxRequests + 1]]

LEMMA Nothing ==
    /\ NoRow \notin Row /\ NoEnv \notin Env /\ NoMember \in Member /\ NoMember.gen = 0
    /\ NoJob \in JobRow /\ NoJob.kind = "none" /\ NoJob.at = "idle" /\ NoJob.gitops = ""
<1>1. NoRow \notin Row
  BY ProjectsAssumption DEF NoRow, Row
<1>2. NoEnv \notin Env
  BY ProjectsAssumption DEF NoEnv, Env
<1>3. NoMember \in Member /\ NoMember.gen = 0
  BY ProjectsAssumption DEF NoMember, Member, Roles, Rank
<1>4. NoJob \in JobRow
  <2>1. "none" \in Kinds /\ "idle" \in AllStages
    BY DEF Kinds, AllStages
  <2>2. 0 \in 0 .. MaxRequests + 1
    BY ProjectsAssumption
  <2> QED
    BY <1>3, <2>1, <2>2 DEF NoJob, JobRow
<1> QED
  BY <1>1, <1>2, <1>3, <1>4 DEF NoJob

LEMMA Typed ==
    ASSUME RegistrationsIInv
    PROVE  /\ RowsOK /\ lone \subseteq Reqs /\ raced \in BOOLEAN /\ invited \in [Ids -> SUBSET Users]
           /\ DOMAIN envs = 1 .. Len(envs) /\ Len(envs) \in Nat
           /\ DOMAIN regs = 1 .. Len(regs) /\ Len(regs) \in Nat
           /\ \A i \in DOMAIN envs : envs[i] \in Env
           /\ \A i \in DOMAIN regs : regs[i] \in Reg
<1>1. RowsOK /\ lone \subseteq Reqs /\ raced \in BOOLEAN /\ invited \in [Ids -> SUBSET Users]
  BY DEF RegistrationsIInv, TypeOK, ProjectsTypeOK, RowsOK
<1> QED
  BY <1>1 DEF RowsOK

LEMMA NoJobGitops == NoJob.gitops = ""
BY Nothing

LEMMA NoJobRow == NoJob \in JobRow
BY Nothing

\* History, beside a step of r.
LEMMA History ==
    ASSUME RegistrationsIInv, NEW r \in Reqs, \A q \in Reqs \ {r} : job'[q] = job[q], Observe,
           job' \in [Reqs -> JobRow]
    PROVE  /\ lone' \subseteq Reqs /\ lone' \subseteq lone \cup {r}
           /\ raced' \in BOOLEAN /\ (raced => raced')
           /\ job[r].at # "idle" => lone' \subseteq lone
           /\ Apart'
<1>1. /\ \A x \in Reqs : x \in lone' => job'[x].at # "idle" /\ \A q \in Reqs \ {x} : Meets(job'[q], job'[x]) = {}
      /\ lone' \subseteq lone \cup {x \in Reqs : job[x].at = "idle" /\ job'[x].at # "idle"}
      /\ raced' = (raced \/ \E q, x \in Reqs : q # x /\ "places" \in Meets(job'[q], job'[x]))
  BY DEF Observe, Meets
<1>2. lone \subseteq Reqs /\ raced \in BOOLEAN
  BY Typed
<1>3. Apart'
  BY <1>1, <1>2 DEF Apart
<1> QED
  BY <1>1, <1>2, <1>3

LEMMA Invited ==
    ASSUME RegistrationsIInv, NEW r \in Reqs, \A q \in Reqs \ {r} : job'[q] = job[q], Observe,
           job' \in [Reqs -> JobRow],
           job'[r].kind \in {"create", "grant"} => job'[r].user \in Users
    PROVE  /\ invited' \in [Ids -> SUBSET Users]
           /\ \A id \in Ids : \A u \in invited[id] : \/ u \in invited'[id]
                 \/ /\ r \in lone /\ job[r].at = "remove" /\ job'[r].at = "answer"
                    /\ job[r].id = id /\ job[r].user = u
           /\ \A q \in Reqs : job'[q].kind = "create" /\ job'[q].id \in Ids =>
                 job'[q].user \in invited'[job'[q].id]
           /\ job[r].at = "idle" /\ job'[r].at # "idle" /\ job'[r].kind = "grant" /\ job'[r].id \in Ids =>
                 job'[r].user \in invited'[job'[r].id]
<1> DEFINE begun == {x \in Reqs : job[x].at = "idle" /\ job'[x].at # "idle"}
           removed == {x \in lone : job[x].at = "remove" /\ job'[x].at = "answer"}
           asked == {x \in begun : job'[x].kind = "grant"} \cup {x \in Reqs : job'[x].kind = "create"}
<1>1. invited' = [id \in Ids |->
                    (invited[id] \ {job[x].user : x \in {q \in removed : job[q].id = id}})
                      \cup {job'[x].user : x \in {q \in asked : job'[q].id = id}}]
  BY DEF Observe
<1>2. removed \subseteq {r} /\ (r \in removed => r \in lone /\ job[r].at = "remove" /\ job'[r].at = "answer")
  BY Typed
<1>3. begun \subseteq {r}
  OBVIOUS
<1>4. ASSUME NEW x \in asked PROVE job'[x].user \in Users
  BY <1>3, <1>4 DEF RegistrationsIInv, OwnOK, Knows
<1>5. invited \in [Ids -> SUBSET Users]
  BY Typed
<1> HIDE DEF begun, removed
<1>6. \A id \in Ids : \A u \in invited[id] : u \in invited'[id] \/ (r \in removed /\ job[r].id = id /\ job[r].user = u)
  BY <1>1, <1>2, <1>5
<1>7. \A x \in asked : job'[x].id \in Ids => job'[x].user \in invited'[job'[x].id]
  BY <1>1, <1>5
<1>8. invited' \in [Ids -> SUBSET Users]
  BY <1>1, <1>4, <1>5
<1>9. job[r].at = "idle" /\ job'[r].at # "idle" /\ job'[r].kind = "grant" => r \in asked
  BY DEF begun
<1> QED
  BY <1>2, <1>6, <1>7, <1>8, <1>9

\* Where a request is tells what it touches.
LEMMA StagesTell ==
    ASSUME RegistrationsIInv, NEW r \in Reqs
    PROVE  LET j == job[r] touched == Touches(job[r].kind) IN
           /\ j \in JobRow /\ j.kind \in Kinds /\ StageOK(j) /\ Knows(j)
           /\ j.kind \in {"create", "grant", "role", "revoke"} <=> "members" \in touched
           /\ j.kind \in {"create", "put", "delete", "preview", "register"} <=> "places" \in touched
           /\ j.kind \in {"register", "deregister"} <=> "registrations" \in touched
           /\ j.at \in Enlisting => j.kind \in {"create", "grant", "role"}
           /\ j.at \in {"env", "owner"} => j.kind = "create"
           /\ j.at \in {"count", "remove"} => j.kind = "revoke"
           /\ j.at = "insert" => j.kind \in {"create", "register"}
           /\ j.at \in {"select", "update"} => j.kind \in {"put", "delete", "register"}
           /\ j.at \in {"envs", "next"} => j.kind = "put"
           /\ j.at = "insertPreview" => j.kind = "preview"
           /\ j.at = "updateEnv" => j.kind \in {"put", "register"}
           /\ j.at \in {"findEnv", "insertEnv", "selectEnv", "findReg", "insertReg"} \cup AppStages =>
                j.kind = "register"
           /\ j.at \in {"selectReg", "updateReg"} => j.kind \in {"register", "deregister", "beat"}
           /\ j.at = "idle" => j.kind = "none"
<1>1. job[r] \in JobRow /\ StageOK(job[r]) /\ Knows(job[r])
  BY DEF RegistrationsIInv, OwnOK
<1>2. job[r].kind \in Kinds
  BY <1>1 DEF JobRow
<1> QED
  BY <1>1, <1>2 DEF StageOK, Kinds, Touches, Enlisting, Placed, RegStages, AppStages

\* What a request knows stays so whatever another one does.
LEMMA OthersKnow ==
    ASSUME RegistrationsIInv, NEW r \in Reqs, Frame(r), Grows, Observe, job' \in [Reqs -> JobRow],
           job'[r].kind \in {"create", "grant"} => job'[r].user \in Users,
           NEW q \in Reqs \ {r}
    PROVE  OwnOK(q)'
<1>1. job'[q] = job[q] /\ OwnOK(q) /\ StageOK(job[q]) /\ Knows(job[q])
  BY DEF Frame, RegistrationsIInv, OwnOK
<1>2. \A i \in DOMAIN envs : i \in DOMAIN envs' /\ envs'[i].of = envs[i].of /\ envs'[i].name = envs[i].name
  BY DEF Grows
<1>3. \A i \in DOMAIN regs : i \in DOMAIN regs' /\ regs'[i].of = regs[i].of /\ regs'[i].env = regs[i].env
  BY DEF Grows
<1>4. Knows(job[q])'
  <2> DEFINE j == job[q]
  <2>1. EnvsOf(j.id) \subseteq EnvsOf(j.id)' /\ EnvsNamed(j) \subseteq EnvsNamed(j)' /\ RegsAt(j) \subseteq RegsAt(j)'
    BY <1>1, <1>2, <1>3 DEF EnvsOf, EnvsNamed, RegsAt
  <2>2. \A i \in EnvsOf(j.id) : envs'[i].name = envs[i].name
    BY <1>2 DEF EnvsOf
  <2>3. ASSUME (j.kind = "create" /\ j.at # "insert") \/ j.at \in Enlisting PROVE j.user \in invited'[j.id]
    <3>1. "members" \in Touches(j.kind) /\ j.id \in Ids /\ j.user \in invited[j.id]
      BY <2>3, StagesTell DEF Knows, Enlisting, AppStages
    <3>2. ~(r \in lone /\ job[r].at = "remove")
      <4> SUFFICES ASSUME r \in lone, job[r].at = "remove" PROVE FALSE
        OBVIOUS
      <4>1. job[r].kind = "revoke"
        BY StagesTell
      <4>2. Meets(j, job[r]) = {}
        BY DEF RegistrationsIInv, Apart
      <4> QED
        BY <3>1, <4>1, <4>2 DEF Meets, Touches
    <3>3. \A x \in Reqs \ {r} : job'[x] = job[x]
      BY DEF Frame
    <3> QED
      BY <3>1, <3>2, <3>3, Invited
  <2>4. \A id \in Ids : Exists(id) => Exists(id)'
    BY DEF Grows
  <2>5. j.reg \in DOMAIN regs => j.reg \in DOMAIN regs'
    BY <1>3
  <2> HIDE DEF j
  <2>6. Knows(j)
    BY <1>1 DEF j
  <2>7. j' = j
    BY <1>1 DEF j
  <2>8. Knows(j)'
    BY <2>1, <2>2, <2>3, <2>4, <2>5, <2>6, <2>7 DEF Knows, EnvsNamed, Enlisting, AppStages
  <2> QED
    BY <2>8 DEF j
<1>5. ~raced' => Finds(job[q])'
  <2> SUFFICES ASSUME ~raced', job[q].at \in {"env", "insertEnv", "insertReg"} PROVE Finds(job[q])'
    BY <1>1 DEF Finds
  <2>1. ~raced /\ "places" \in Touches(job[q].kind)
    BY StagesTell, History DEF Frame
  <2>2. "places" \notin Touches(job[r].kind)
    BY <2>1 DEF RegistrationsIInv, Apart, Meets
  <2>3. envs' = envs /\ DOMAIN regs' = DOMAIN regs
    BY <2>2 DEF Frame
  <2> QED
    BY <1>1, <1>3, <2>1, <2>3 DEF OwnOK, Finds, EnvsOf, EnvsNamed, RegsAt
<1>6. q \in lone' => KnowsMembers(job[q])' /\ KnowsPlaces(job[q])' /\ KnowsRegs(job[q])'
  <2> SUFFICES ASSUME q \in lone' PROVE KnowsMembers(job[q])' /\ KnowsPlaces(job[q])' /\ KnowsRegs(job[q])'
    OBVIOUS
  <2>1. q \in lone
    BY History DEF Frame
  <2>2. Meets(job[r], job[q]) = {}
    BY <2>1 DEF RegistrationsIInv, Apart
  <2>3. KnowsMembers(job[q]) /\ KnowsPlaces(job[q]) /\ KnowsRegs(job[q])
    BY <1>1, <2>1 DEF OwnOK
  <2>4. KnowsMembers(job[q])'
    <3>1. CASE "members" \in Touches(job[q].kind)
      <4>1. member' = member
        BY <2>2, <3>1 DEF Frame, Meets
      <4> QED
        BY <1>1, <2>3, <4>1 DEF KnowsMembers, Owners
    <3>2. CASE "members" \notin Touches(job[q].kind)
      BY <1>1, <3>2, StagesTell DEF KnowsMembers, Enlisting
    <3> QED
      BY <3>1, <3>2
  <2>5. KnowsPlaces(job[q])' /\ KnowsRegs(job[q])'
    <3>1. CASE "places" \in Touches(job[q].kind)
      <4>1. UNCHANGED <<project, envs, apps>>
        BY <2>2, <3>1 DEF Frame, Meets
      <4>2. KnowsPlaces(job[q])'
        BY <1>1, <2>3, <4>1 DEF KnowsPlaces, EnvsOf, Assigned
      <4>3. CASE job[q].kind = "register"
        <5>1. "registrations" \notin Touches(job[r].kind)
          BY <2>2, <4>3 DEF Meets, Touches
        <5>2. job[q].at \in {"updateReg", "answer"} \cup AppStages => job[q].reg \in DOMAIN regs
          BY <1>1, <4>3 DEF Knows, RegsAt, AppStages
        <5>3. job[q].at \in {"updateReg", "answer"} \cup AppStages =>
                regs'[job[q].reg].status \in {regs[job[q].reg].status, "online"}
          BY <5>1, <5>2 DEF Frame
        <5> QED
          BY <1>1, <2>3, <4>1, <4>2, <5>3 DEF KnowsRegs, PlaceOf, AppStages
      <4> QED
        BY <1>1, <4>2, <4>3 DEF KnowsRegs, AppStages
    <3>2. CASE "places" \notin Touches(job[q].kind)
      BY <1>1, <3>2, StagesTell DEF KnowsPlaces, KnowsRegs, AppStages
    <3> QED
      BY <3>1, <3>2
  <2> QED
    BY <2>4, <2>5
<1>7. Carries(job[q])'
  <2>1. Carries(job[q])
    BY DEF RegistrationsIInv, OwnOK
  <2> QED
    BY <1>1, <2>1
<1> QED
  BY <1>1, <1>4, <1>5, <1>6, <1>7 DEF OwnOK

\* A step keeps the invariant when its own request knows what it has to.
LEMMA StepKeeps ==
    ASSUME RegistrationsIInv, NEW r \in Reqs, Frame(r), Grows, Joins(r), Observe,
           job' \in [Reqs -> JobRow], RowsOK', Consistent', NoDuplicates', OwnOK(r)'
    PROVE  RegistrationsIInv'
<1>0. \A q \in Reqs \ {r} : job'[q] = job[q]
  BY DEF Frame
<1>1. job'[r].kind \in {"create", "grant"} => job'[r].user \in Users
  BY DEF OwnOK, Knows, AppStages
<1>2. \A q \in Reqs : OwnOK(q)'
  BY <1>1, OthersKnow
<1>3. MembersInvited'
  <2> SUFFICES ASSUME NEW id \in Ids, NEW u \in Users, member'[id][u].gen # 0 PROVE u \in invited'[id]
    BY DEF MembersInvited
  <2>1. member[id][u].gen # 0 \/ (job[r].at \in Enlisting /\ id = job[r].id /\ u = job[r].user)
    BY DEF Joins
  <2>2. u \in invited[id]
    BY <2>1 DEF RegistrationsIInv, MembersInvited, OwnOK, Knows, AppStages
  <2>3. ~(r \in lone /\ job[r].at = "remove" /\ job'[r].at = "answer" /\ job[r].id = id /\ job[r].user = u)
    BY DEF Joins
  <2> QED
    BY <1>0, <1>1, <2>2, <2>3, Invited
<1>4. TypeOK'
  <2>1. invited' \in [Ids -> SUBSET Users]
    BY <1>0, <1>1, Invited
  <2>2. lone' \subseteq Reqs /\ raced' \in BOOLEAN
    BY <1>0, History
  <2>3. \A i \in DOMAIN regs' : regs'[i].env \in DOMAIN envs'
    BY DEF Consistent
  <2>4. \A q \in Reqs :
          /\ job'[q].kind \in Kinds /\ job'[q].id \in Ids \cup {None}
          /\ job'[q].copy \in Row \cup {NoRow} /\ job'[q].selected \in Row \cup {NoRow}
          /\ job'[q].place \in Env \cup {NoEnv} /\ job'[q].was \in Env \cup {NoEnv}
          /\ job'[q].held \in Member /\ job'[q].found \in Member
    BY DEF JobRow
  <2> QED
    BY <2>1, <2>2, <2>3, <2>4 DEF TypeOK, ProjectsTypeOK, RowsOK
<1>5. Apart'
  BY <1>0, History
<1> QED
  BY <1>2, <1>3, <1>4, <1>5 DEF RegistrationsIInv

\* Rows that keep their number keep what binds them.
LEMMA SameRows ==
    ASSUME RegistrationsIInv, Grows, DOMAIN envs' = DOMAIN envs, DOMAIN regs' = DOMAIN regs, raced => raced'
    PROVE  Consistent' /\ NoDuplicates'
<1>1. \A i \in DOMAIN envs : envs[i].of \in Ids
  BY Typed DEF Env
<1> QED
  BY <1>1 DEF RegistrationsIInv, Consistent, NoDuplicates, Grows

\* A step that moves its request only.
LEMMA QuietKeeps ==
    ASSUME RegistrationsIInv, NEW r \in Reqs, UNCHANGED <<project, envs, member, regs, apps>>,
           started' \in 0 .. MaxRequests, Observe, NEW j \in JobRow, job' = [job EXCEPT ![r] = j],
           job[r].at # "remove" \/ j.at # "answer",
           OwnOK(r)'
    PROVE  RegistrationsIInv'
<1>1. job' \in [Reqs -> JobRow] /\ job'[r] = j /\ \A q \in Reqs \ {r} : job'[q] = job[q]
  BY DEF RegistrationsIInv
<1>2. RowsOK'
  BY Typed DEF RowsOK
<1>3. Frame(r)
  BY <1>1 DEF Frame
<1>4. Grows
  BY DEF Grows, Exists
<1>5. Joins(r)
  BY <1>1 DEF Joins
<1>6. Consistent' /\ NoDuplicates'
  BY <1>1, <1>4, History, SameRows
<1> QED
  BY <1>1, <1>2, <1>3, <1>4, <1>5, <1>6, StepKeeps

-----------------------------------------------------------------------------
(* Accepting a request *)

Begins(j) ==
    /\ j.kind # "none" /\ StageOK(j)
    /\ j.at \in {"insert", "select", "insertPreview", "enlist", "selectMember", "count", "remove",
                 "findEnv", "selectReg"}
    /\ j.gitops = ""
    /\ j.kind = "preview" => j.at = "insertPreview" /\ Exists(j.id)
    /\ j.at = "insertPreview" => PreviewPlace(j.id, j.place)
    /\ j.kind = "create" => j.at = "insert" /\ j.env = 0
    /\ j.kind = "delete" => ~j.moved
    /\ j.at # "insert" => j.id \in Ids
    /\ j.kind \in {"create", "grant", "role", "revoke"} => j.user \in Users
    /\ j.kind \in {"create", "put", "delete", "register"} =>
         j.copy \in Row /\ (j.at # "insert" => Exists(j.id))
    /\ j.at \in Enlisting => j.kind = "grant" \/ j.user \in invited[j.id]
    /\ j.kind = "register" =>
         /\ j.at \in {"insert", "select", "findEnv"}
         /\ j.name \in {EnvNames[k] : k \in DOMAIN EnvNames}
         /\ j.asked # None => j.copy.repo = j.asked
         /\ j.at = "findEnv" => project[j.id] = j.copy
    /\ j.at = "selectReg" => j.reg \in DOMAIN regs
    /\ j.at \in {"count", "remove"} => j.held = member[j.id][j.user]
    /\ j.at = "remove" => j.user \notin Owners(j.id)

LEMMA AcceptKeeps ==
    ASSUME RegistrationsIInv, NEW r \in Reqs, NEW j \in JobRow, Accept(r, j), UNCHANGED <<regs, apps>>,
           Observe, Begins(j)
    PROVE  RegistrationsIInv'
<1> DEFINE new == [j EXCEPT !.no = started + 2]
<1>1. /\ job[r].at = "idle" /\ started < MaxRequests /\ started' = started + 1
      /\ job' = [job EXCEPT ![r] = new] /\ UNCHANGED <<project, envs, member>>
  BY DEF Accept, Free, Become
<1>2. started \in 0 .. MaxRequests /\ MaxRequests \in Nat
  BY Typed, ProjectsAssumption DEF RowsOK
<1>3. started' \in 0 .. MaxRequests /\ started + 2 \in 0 .. MaxRequests + 1 /\ started + 2 # 0
  BY <1>1, <1>2
<1>4. new \in JobRow
  BY <1>3 DEF JobRow
<1>5. /\ new.no = started + 2 /\ new.kind = j.kind /\ new.at = j.at /\ new.id = j.id /\ new.user = j.user
      /\ new.asked = j.asked /\ new.copy = j.copy /\ new.name = j.name /\ new.held = j.held /\ new.reg = j.reg
      /\ new.env = j.env /\ new.moved = j.moved /\ new.gitops = j.gitops /\ new.place = j.place
  BY DEF JobRow
<1> HIDE DEF new
<1>6. job'[r] = new /\ (\A q \in Reqs \ {r} : job'[q] = job[q]) /\ job' \in [Reqs -> JobRow]
  BY <1>1, <1>4 DEF RegistrationsIInv
<1>7. StageOK(new)
  BY <1>5 DEF Begins, StageOK
<1>8. new.at \in Enlisting => new.user \in invited'[new.id]
  <2> SUFFICES ASSUME new.at \in Enlisting PROVE new.user \in invited'[new.id]
    OBVIOUS
  <2>1. new.kind \in {"grant", "role"} /\ new.id \in Ids /\ new.user \in Users /\ new.at # "idle"
    BY <1>5, <1>4 DEF Begins, StageOK, Enlisting, JobRow, Kinds
  <2> QED
    BY <1>1, <1>5, <1>6, <2>1, Invited DEF Begins
<1>9. new.kind \notin {"create"} \/ new.at = "insert"
  BY <1>5 DEF Begins
<1>10. Knows(job[r])'
  BY <1>1, <1>3, <1>5, <1>6, <1>8, <1>9 DEF Begins, Knows, Enlisting, Placed, RegStages, AppStages, Exists
<1>11. Finds(job[r])' /\ KnowsMembers(job[r])' /\ KnowsPlaces(job[r])' /\ KnowsRegs(job[r])'
  BY <1>1, <1>5, <1>6 DEF Begins, Finds, KnowsMembers, KnowsPlaces, KnowsRegs, Owners, RegStages, AppStages
<1>12. Carries(job[r])'
  <2>1. Carries(new)
    BY <1>5 DEF Begins, Carries
  <2> QED
    BY <1>6, <2>1
<1>13. OwnOK(r)'
  BY <1>6, <1>7, <1>10, <1>11, <1>12 DEF OwnOK
<1> QED
  BY <1>1, <1>3, <1>4, <1>13, QuietKeeps

\* The words of kinds and stages.
LEMMA Words ==
    /\ \A k \in {"create", "put", "delete", "preview", "grant", "role", "revoke", "register", "deregister", "beat"} :
         k \in Kinds
    /\ \A at \in {"insert", "select", "insertPreview", "enlist", "selectMember", "count", "remove",
                 "findEnv", "selectReg"} :
         at \in AllStages
    /\ \A at \in {"env", "owner", "updateMember", "answer", "update", "envs", "next", "updateEnv",
                 "insertEnv", "selectEnv", "findReg", "insertReg", "updateReg"} \cup AppStages :
         at \in AllStages
BY DEF Kinds, AllStages, PortalStages, RegStages, AppStages

\* Rows as the requests give them.
LEMMA RowMade ==
    ASSUME NEW row \in Row, NEW domain \in Domains \cup {None}, NEW repo \in Repos \cup {None}
    PROVE  /\ [row EXCEPT !.active = FALSE] \in Row
           /\ Changed(row) \subseteq Row
           /\ Adjusted(row, domain, repo) \in Row
<1>1. [row EXCEPT !.active = FALSE] \in Row
  BY DEF Row
<1>2. Changed(row) \subseteq Row
  BY DEF Changed, Row
<1>3. Adjusted(row, domain, repo) \in Row
  BY DEF Adjusted, Row
<1> QED
  BY <1>1, <1>2, <1>3

LEMMA MembersTyped ==
    ASSUME RegistrationsIInv, NEW id \in Ids, NEW u \in Users, NEW role \in Roles
    PROVE  member[id][u] \in Member /\ [member[id][u] EXCEPT !.role = role] \in Member
<1>1. member[id][u] \in Member
  BY Typed DEF RowsOK
<1> QED
  BY <1>1 DEF Member

LEMMA PortalBeginsKeeps ==
    ASSUME RegistrationsIInv, NEW r \in Reqs, PortalBegins(r), UNCHANGED <<regs, apps>>, Observe
    PROVE  RegistrationsIInv'
<1> USE NoJobRow
<1>0. /\ \A id \in Ids : Exists(id) => project[id] \in Row
      /\ \A id \in Ids : project[id] \in Row \cup {NoRow}
  BY Typed DEF RowsOK, Exists
<1>1. ASSUME NEW a \in Users, NEW n \in Names, NEW d \in Domains \cup {None},
             Create(r, a, [name |-> n, domain |-> d, repo |-> None, active |-> TRUE])
      PROVE  RegistrationsIInv'
  <2> DEFINE row == [name |-> n, domain |-> d, repo |-> None, active |-> TRUE]
             j == [NoJob EXCEPT !.kind = "create", !.at = "insert", !.user = a, !.copy = row]
  <2>1. row \in Row
    BY DEF Row
  <2>2. Accept(r, j)
    BY <1>1 DEF Create
  <2> HIDE DEF row
  <2>3. j \in JobRow /\ j.gitops = "" /\ j.kind = "create" /\ j.at = "insert" /\ j.user = a /\ j.copy = row /\ j.env = 0
    <3>1. "create" \in Kinds /\ "insert" \in AllStages
      BY <2>1, Words
    <3>2. j \in JobRow
      BY <2>1, <3>1 DEF JobRow
    <3>3. NoJob.env = 0
      BY DEF NoJob
    <3> QED
      BY <3>2, <3>3, NoJobGitops DEF JobRow
  <2> HIDE DEF j
  <2>4. Begins(j)
    BY <2>1, <2>3 DEF Begins, StageOK, Enlisting
  <2> QED
    BY <2>2, <2>3, <2>4, AcceptKeeps
<1>2. ASSUME NEW a \in Users, NEW id \in Ids, NEW row \in Changed(project[id]), Put(r, a, id, row)
      PROVE  RegistrationsIInv'
  <2> DEFINE moved == row.domain # project[id].domain
             j == [NoJob EXCEPT !.kind = "put", !.at = "select", !.id = id, !.copy = row,
                                !.moved = moved, !.todo = EnvsOf(id)]
  <2>1. Exists(id) /\ Accept(r, j)
    BY <1>2 DEF Put
  <2>2. row \in Row
    BY <1>0, <2>1, RowMade
  <2>3. EnvsOf(id) \in SUBSET Nat /\ moved \in BOOLEAN
    BY Typed DEF EnvsOf
  <2> HIDE DEF moved
  <2>4. j \in JobRow /\ j.gitops = "" /\ j.kind = "put" /\ j.at = "select" /\ j.id = id /\ j.copy = row
    <3>1. "put" \in Kinds /\ "select" \in AllStages
      BY <2>2, <2>3, Words
    <3>2. j \in JobRow
      BY <2>2, <2>3, <3>1 DEF JobRow
    <3> QED
      BY <3>2, NoJobGitops DEF JobRow
  <2> HIDE DEF j
  <2>5. Begins(j)
    BY <2>1, <2>2, <2>4 DEF Begins, StageOK, Enlisting
  <2> QED
    BY <2>1, <2>4, <2>5, AcceptKeeps
<1>3. ASSUME NEW a \in Users, NEW id \in Ids, Delete(r, a, id) PROVE RegistrationsIInv'
  <2> DEFINE row == [project[id] EXCEPT !.active = FALSE]
             j == [NoJob EXCEPT !.kind = "delete", !.at = "select", !.id = id, !.copy = row]
  <2>1. Exists(id) /\ Accept(r, j)
    BY <1>3 DEF Delete
  <2>2. row \in Row
    BY <1>0, <2>1, RowMade
  <2> HIDE DEF row
  <2>3. j \in JobRow /\ j.gitops = "" /\ j.kind = "delete" /\ j.at = "select" /\ j.id = id /\ j.copy = row /\ ~j.moved
    <3>1. "delete" \in Kinds /\ "select" \in AllStages
      BY <2>2, Words
    <3>2. j \in JobRow
      BY <2>2, <3>1 DEF JobRow
    <3>3. ~NoJob.moved
      BY DEF NoJob
    <3> QED
      BY <3>2, <3>3, NoJobGitops DEF JobRow
  <2> HIDE DEF j
  <2>4. Begins(j)
    BY <2>1, <2>2, <2>3 DEF Begins, StageOK, Enlisting
  <2> QED
    BY <2>1, <2>3, <2>4, AcceptKeeps
<1>4. ASSUME NEW a \in Users, NEW id \in Ids, NEW u \in Users, NEW role \in {"owner", "viewer"},
             Grant(r, a, id, u, role)
      PROVE  RegistrationsIInv'
  <2> DEFINE held == [member[id][u] EXCEPT !.role = role]
             at == IF member[id][u].gen = 0 THEN "enlist" ELSE "selectMember"
             j == [NoJob EXCEPT !.kind = "grant", !.at = at, !.id = id, !.user = u, !.held = held]
  <2>1. Accept(r, j)
    BY <1>4 DEF Grant
  <2>2. held \in Member
    BY MembersTyped DEF Roles, Rank
  <2>3. at \in {"enlist", "selectMember"}
    OBVIOUS
  <2> HIDE DEF held, at
  <2>4. j \in JobRow /\ j.gitops = "" /\ j.kind = "grant" /\ j.at = at /\ j.id = id /\ j.user = u
    <3>1. "grant" \in Kinds /\ at \in AllStages
      BY <2>2, <2>3, Words
    <3>2. j \in JobRow
      BY <2>2, <2>3, <3>1 DEF JobRow
    <3> QED
      BY <3>2, NoJobGitops DEF JobRow
  <2> HIDE DEF j
  <2>5. Begins(j)
    BY <2>3, <2>4 DEF Begins, StageOK, Enlisting
  <2> QED
    BY <2>1, <2>4, <2>5, AcceptKeeps
<1>5. ASSUME NEW a \in Users, NEW id \in Ids, NEW u \in Users, NEW role \in {"owner", "viewer"},
             ChangeRole(r, a, id, u, role)
      PROVE  RegistrationsIInv'
  <2> DEFINE held == [member[id][u] EXCEPT !.role = role]
             j == [NoJob EXCEPT !.kind = "role", !.at = "selectMember", !.id = id, !.user = u, !.held = held]
  <2>1. Accept(r, j) /\ member[id][u].gen # 0
    BY <1>5 DEF ChangeRole
  <2>2. held \in Member
    BY MembersTyped DEF Roles, Rank
  <2>3. u \in invited[id]
    BY <2>1 DEF RegistrationsIInv, MembersInvited
  <2> HIDE DEF held
  <2>4. j \in JobRow /\ j.gitops = "" /\ j.kind = "role" /\ j.at = "selectMember" /\ j.id = id /\ j.user = u
    <3>1. "role" \in Kinds /\ "selectMember" \in AllStages
      BY <2>2, Words
    <3>2. j \in JobRow
      BY <2>2, <3>1 DEF JobRow
    <3> QED
      BY <3>2, NoJobGitops DEF JobRow
  <2> HIDE DEF j
  <2>5. Begins(j)
    BY <2>3, <2>4 DEF Begins, StageOK, Enlisting
  <2> QED
    BY <2>1, <2>4, <2>5, AcceptKeeps
<1>6. ASSUME NEW a \in Users, NEW id \in Ids, NEW u \in Users, Revoke(r, a, id, u)
      PROVE  RegistrationsIInv'
  <2> DEFINE held == member[id][u]
             at == IF held.role = "owner" THEN "count" ELSE "remove"
             j == [NoJob EXCEPT !.kind = "revoke", !.at = at, !.id = id, !.user = u, !.held = held]
  <2>1. Accept(r, j)
    BY <1>6 DEF Revoke
  <2>2. held \in Member
    BY Typed DEF RowsOK
  <2>3. at \in {"count", "remove"} /\ (at = "remove" => u \notin Owners(id))
    BY DEF Owners
  <2>4. held = member[id][u]
    OBVIOUS
  <2> HIDE DEF held, at
  <2>5. j \in JobRow /\ j.gitops = "" /\ j.kind = "revoke" /\ j.at = at /\ j.id = id /\ j.user = u /\ j.held = held
    <3>1. "revoke" \in Kinds /\ at \in AllStages
      BY <2>2, <2>3, Words
    <3>2. j \in JobRow
      BY <2>2, <2>3, <3>1 DEF JobRow
    <3> QED
      BY <3>2, NoJobGitops DEF JobRow
  <2> HIDE DEF j
  <2>6. Begins(j)
    BY <2>3, <2>4, <2>5 DEF Begins, StageOK, Enlisting
  <2> QED
    BY <2>1, <2>5, <2>6, AcceptKeeps
<1>7. ASSUME NEW id \in Ids, DeployPreview(r, id) PROVE RegistrationsIInv'
  <2> DEFINE place == PreviewOf(id, project[id])
             j == [NoJob EXCEPT !.kind = "preview", !.at = "insertPreview", !.id = id, !.place = place]
  <2>1. Exists(id) /\ Accept(r, j)
    BY <1>7 DEF DeployPreview
  <2>2. place \in Env /\ PreviewPlace(id, place)
    <3>1. project[id].domain \in Domains \cup {Base, None}
      BY <1>0, <2>1 DEF Row
    <3>2. <<None, IF project[id].domain = None THEN Base ELSE project[id].domain>>
            \in (Names \cup {None}) \X (Domains \cup {Base})
      BY <3>1
    <3>3. place \in Env
      BY <3>2 DEF PreviewOf, Env, EnvName
    <3>4. place.of = id /\ place.name = Preview
      BY DEF PreviewOf
    <3> QED
      BY <3>3, <3>4 DEF PreviewPlace
  <2> HIDE DEF place
  <2>3. j \in JobRow /\ j.kind = "preview" /\ j.at = "insertPreview" /\ j.id = id /\ j.place = place /\ j.gitops = ""
    <3>1. "preview" \in Kinds /\ "insertPreview" \in AllStages
      BY Words
    <3>2. j \in JobRow
      BY <2>2, <3>1 DEF JobRow
    <3> QED
      BY <3>2, NoJobGitops DEF JobRow
  <2> HIDE DEF j
  <2>4. Begins(j)
    BY <2>1, <2>2, <2>3 DEF Begins, StageOK, Enlisting
  <2> QED
    BY <2>1, <2>3, <2>4, AcceptKeeps
<1> QED
  BY <1>1, <1>2, <1>3, <1>4, <1>5, <1>6, <1>7 DEF PortalBegins

LEMMA ClientBeginsKeeps ==
    ASSUME RegistrationsIInv, NEW r \in Reqs, ClientBegins(r), UNCHANGED <<regs, apps>>, Observe
    PROVE  RegistrationsIInv'
<1> USE NoJobRow
<1>0. \A id \in Ids, n \in Names : id \in Named(n) => project[id] \in Row /\ Exists(id)
  BY Typed, ProjectsAssumption DEF RowsOK, Exists, Named, NoRow
<1>1. ASSUME NEW n \in Names, NEW domain \in Domains \cup {None}, NEW repo \in Repos \cup {None},
             Register(r, n, EnvNames[1], domain, repo)
      PROVE  RegistrationsIInv'
  <2> DEFINE new == [name |-> n, domain |-> IF domain = None THEN Base ELSE domain,
                     repo |-> repo, active |-> TRUE]
             name == EnvNames[1]
             fresh == [NoJob EXCEPT !.kind = "register", !.name = name, !.asked = repo, !.at = "insert",
                                    !.copy = new]
  <2>1. name \in {EnvNames[k] : k \in DOMAIN EnvNames}
    BY ProjectsAssumption
  <2>2. new \in Row
    BY DEF Row
  <2>3. CASE Accept(r, fresh)
    <3> HIDE DEF new, name
    <3>1. /\ fresh \in JobRow /\ fresh.gitops = "" /\ fresh.kind = "register" /\ fresh.at = "insert" /\ fresh.name = name
          /\ fresh.copy = new /\ fresh.asked = repo
      <4>1. "register" \in Kinds /\ "insert" \in AllStages
        BY <2>1, <2>2, Words
      <4>2. fresh \in JobRow
        BY <2>1, <2>2, <4>1 DEF JobRow
      <4> QED
        BY <4>2, NoJobGitops DEF JobRow
    <3>2. new.repo = repo
      BY DEF new
    <3> HIDE DEF fresh
    <3>3. Begins(fresh)
      BY <2>1, <2>2, <3>1, <3>2 DEF Begins, StageOK, Enlisting
    <3> QED
      BY <2>3, <3>1, <3>3, AcceptKeeps
  <2>4. ASSUME NEW id \in Named(n), Agrees(project[id], repo),
               Accept(r, [NoJob EXCEPT !.kind = "register", !.name = name, !.asked = repo,
                            !.at = IF Adjusted(project[id], domain, repo) = project[id]
                                   THEN "findEnv" ELSE "select",
                            !.id = id, !.copy = Adjusted(project[id], domain, repo)])
        PROVE  RegistrationsIInv'
    <3> DEFINE copy == Adjusted(project[id], domain, repo)
               at == IF copy = project[id] THEN "findEnv" ELSE "select"
               j == [NoJob EXCEPT !.kind = "register", !.name = name, !.asked = repo, !.at = at,
                                  !.id = id, !.copy = copy]
    <3>1. id \in Ids /\ project[id] \in Row /\ Exists(id)
      BY <1>0 DEF Named
    <3>2. copy \in Row
      BY <3>1, RowMade
    <3>3. repo # None => copy.repo = repo
      BY <2>4, <3>1 DEF Agrees, Adjusted, Row
    <3>4. at \in {"findEnv", "select"} /\ (at = "findEnv" => copy = project[id])
      OBVIOUS
    <3>5. Accept(r, j)
      BY <2>4
    <3> HIDE DEF copy, at, name
    <3>6. /\ j \in JobRow /\ j.gitops = "" /\ j.kind = "register" /\ j.at = at /\ j.name = name /\ j.id = id
          /\ j.copy = copy /\ j.asked = repo
      <4>1. "register" \in Kinds /\ at \in AllStages
        BY <2>1, <3>1, <3>2, <3>4, Words
      <4>2. j \in JobRow
        BY <2>1, <3>1, <3>2, <3>4, <4>1 DEF JobRow
      <4> QED
        BY <4>2, NoJobGitops DEF JobRow
    <3> HIDE DEF j
    <3>7. Begins(j)
      BY <2>1, <3>1, <3>2, <3>3, <3>4, <3>6 DEF Begins, StageOK, Enlisting
    <3> QED
      BY <3>5, <3>6, <3>7, AcceptKeeps
  <2> QED
    BY <1>1, <2>3, <2>4 DEF Register
<1>2. ASSUME NEW k \in {"deregister", "beat"}, NEW id \in Ids, NEW i \in DOMAIN regs,
             Accept(r, [NoJob EXCEPT !.kind = k, !.at = "selectReg", !.id = id, !.reg = i])
      PROVE  RegistrationsIInv'
  <2> DEFINE j == [NoJob EXCEPT !.kind = k, !.at = "selectReg", !.id = id, !.reg = i]
  <2>1. i \in Nat
    BY Typed
  <2>2. j \in JobRow /\ j.gitops = "" /\ j.kind = k /\ j.at = "selectReg" /\ j.id = id /\ j.reg = i
    <3>1. k \in Kinds /\ "selectReg" \in AllStages
      BY <2>1, Words
    <3>2. j \in JobRow
      BY <2>1, <3>1 DEF JobRow
    <3> QED
      BY <3>2, NoJobGitops DEF JobRow
  <2>3. Accept(r, j)
    BY <1>2
  <2> HIDE DEF j
  <2>4. Begins(j)
    BY <2>2 DEF Begins, StageOK, Enlisting
  <2> QED
    BY <2>2, <2>3, <2>4, AcceptKeeps
<1>3. ASSUME NEW n \in Names, Deregister(r, n) PROVE RegistrationsIInv'
  BY <1>2, <1>3 DEF Deregister, Named
<1>4. ASSUME Beat(r) PROVE RegistrationsIInv'
  BY <1>2, <1>4, Typed DEF Beat, Reg
<1> QED
  BY <1>1, <1>3, <1>4 DEF ClientBegins

-----------------------------------------------------------------------------
(* Steps that read *)

\* What a request is given when it is accepted.
Similar(j, k) ==
    /\ k.kind = j.kind /\ k.no = j.no /\ k.user = j.user /\ k.asked = j.asked
    /\ k.copy = j.copy /\ k.name = j.name /\ k.moved = j.moved

\* ... and what the answer says of the Application.
Alike(j, k) == Similar(j, k) /\ k.gitops = j.gitops

\* A request on its way has written no Application.
LEMMA NotWritten ==
    ASSUME RegistrationsIInv, NEW r \in Reqs, job[r].at # "answer"
    PROVE  job[r].gitops = ""
<1>1. job[r] \in JobRow /\ Carries(job[r])
  BY DEF RegistrationsIInv, OwnOK
<1> QED
  BY <1>1 DEF JobRow, Carries

LEMMA CarriesOn ==
    ASSUME RegistrationsIInv, NEW r \in Reqs, NEW k \in JobRow, Alike(job[r], k), job[r].at # "answer",
           k.at # "insertPreview"
    PROVE  Carries(k)
BY NotWritten DEF Alike, Carries

\* A step that only moves a request at work: what it knows is judged by the rows as they are.
LEMMA MoveKeeps ==
    ASSUME RegistrationsIInv, NEW r \in Reqs, job[r].at # "idle", Observe,
           UNCHANGED <<project, envs, member, started, regs, apps>>,
           NEW j \in JobRow, job' = [job EXCEPT ![r] = j], job[r].at # "remove" \/ j.at # "answer",
           j = NoJob \/ (Alike(job[r], j) /\ job[r].at # "answer" /\ j.at # "insertPreview"),
           StageOK(j), Knows(j), ~raced => Finds(j),
           r \in lone => KnowsMembers(j) /\ KnowsPlaces(j) /\ KnowsRegs(j)
    PROVE  RegistrationsIInv'
<1>1. job' \in [Reqs -> JobRow] /\ job'[r] = j /\ \A q \in Reqs \ {r} : job'[q] = job[q]
  BY DEF RegistrationsIInv
<1>2. (r \in lone' => r \in lone) /\ (~raced' => ~raced)
  BY <1>1, History
<1>3. (j.kind = "create" /\ j.at # "insert") \/ j.at \in Enlisting => j.user \in invited'[j.id]
  <2> SUFFICES ASSUME (j.kind = "create" /\ j.at # "insert") \/ j.at \in Enlisting
               PROVE  j.user \in invited'[j.id]
    OBVIOUS
  <2>1. j.user \in invited[j.id] /\ j.kind # "none" /\ j.at # "insert"
    BY DEF Knows, StageOK, Enlisting, AppStages
  <2>2. j.id \in Ids
    BY <2>1 DEF Knows, AppStages
  <2>3. j.kind \in {"create", "grant"} => j.user \in Users
    BY DEF Knows, AppStages
  <2> QED
    BY <1>1, <2>1, <2>2, <2>3, Invited
<1>4. Knows(job[r])'
  <2>1. Knows(j)'
    BY <1>3 DEF Knows, EnvsOf, EnvsNamed, RegsAt, Exists, AppStages
  <2> QED
    BY <1>1, <2>1
<1>5. (~raced' => Finds(job[r])') /\ StageOK(job[r])'
  BY <1>1, <1>2 DEF Finds, EnvsOf, EnvsNamed, RegsAt, StageOK
<1>6. r \in lone' => KnowsMembers(job[r])' /\ KnowsPlaces(job[r])' /\ KnowsRegs(job[r])'
  BY <1>1, <1>2 DEF KnowsMembers, KnowsPlaces, KnowsRegs, Owners, EnvsOf, PlaceOf, AppStages
<1>7. Carries(j)
  <2>1. Carries(NoJob)
    BY Nothing DEF Carries
  <2> QED
    BY <2>1, CarriesOn
<1>8. Carries(job[r])'
  BY <1>1, <1>7
<1>9. OwnOK(r)'
  BY <1>4, <1>5, <1>6, <1>8 DEF OwnOK
<1>10. started' \in 0 .. MaxRequests
  BY Typed DEF RowsOK
<1> QED
  BY <1>9, <1>10, QuietKeeps

LEMMA EndKeeps ==
    ASSUME RegistrationsIInv, NEW r \in Reqs, job[r].at # "idle", Observe, End(r),
           UNCHANGED <<project, envs, member, started, regs, apps>>
    PROVE  RegistrationsIInv'
<1>1. NoJob \in JobRow /\ NoJob.kind = "none" /\ NoJob.at = "idle" /\ NoJob.gitops = ""
  BY Nothing
<1>2. job' = [job EXCEPT ![r] = NoJob]
  BY DEF End, Become
<1>3. StageOK(NoJob) /\ Knows(NoJob) /\ Finds(NoJob)
  BY <1>1 DEF StageOK, Knows, Finds, Enlisting, Placed, RegStages, AppStages
<1>4. KnowsMembers(NoJob) /\ KnowsPlaces(NoJob) /\ KnowsRegs(NoJob)
  BY <1>1 DEF KnowsMembers, KnowsPlaces, KnowsRegs, AppStages
<1> QED
  BY <1>1, <1>2, <1>3, <1>4, MoveKeeps

LEMMA SelectKeeps ==
    ASSUME RegistrationsIInv, NEW r \in Reqs, Select(r), UNCHANGED <<regs, apps>>, Observe
    PROVE  RegistrationsIInv'
<1> DEFINE j == job[r]
           new == [j EXCEPT !.at = "update", !.selected = project[j.id]]
<1>1. j.at = "select" /\ UNCHANGED <<project, envs, member, started>>
  BY DEF Select
<1>2. CASE End(r)
  BY <1>1, <1>2, EndKeeps
<1>3. CASE Become(r, new)
  <2>1. /\ j \in JobRow /\ StageOK(j) /\ Knows(j) /\ j.kind \in {"put", "delete", "register"}
    BY <1>1, StagesTell
  <2>2. j.id \in Ids /\ Exists(j.id)
    BY <1>1, <2>1 DEF Knows, AppStages
  <2>3. project[j.id] \in Row
    BY <2>2, Typed DEF RowsOK, Exists
  <2>4. new \in JobRow
    BY <2>1, <2>3, Words DEF JobRow
  <2>5. Alike(j, new) /\ new.at = "update" /\ new.selected = project[j.id] /\ new.id = j.id
    BY <2>1 DEF JobRow, Alike, Similar
  <2>6. job' = [job EXCEPT ![r] = new]
    BY <1>3 DEF Become
  <2> HIDE DEF j, new
  <2>7. StageOK(new) /\ Knows(new) /\ Finds(new)
    BY <1>1, <2>1, <2>2, <2>3, <2>5 DEF Alike, Similar, StageOK, Knows, Finds, Enlisting, Placed, RegStages, AppStages
  <2>8. KnowsMembers(new) /\ KnowsPlaces(new) /\ KnowsRegs(new)
    BY <2>1, <2>5 DEF Alike, Similar, KnowsMembers, KnowsPlaces, KnowsRegs, RegStages, AppStages
  <2> QED
    BY <1>1, <2>4, <2>5, <2>6, <2>7, <2>8, MoveKeeps DEF j
<1> QED
  BY <1>2, <1>3 DEF Select

LEMMA ListEnvsKeeps ==
    ASSUME RegistrationsIInv, NEW r \in Reqs, ListEnvs(r), UNCHANGED <<regs, apps>>, Observe
    PROVE  RegistrationsIInv'
<1> DEFINE j == job[r]
           new == [j EXCEPT !.at = "next", !.todo = EnvsOf(j.id)]
<1>1. j.at = "envs" /\ UNCHANGED <<project, envs, member, started>> /\ job' = [job EXCEPT ![r] = new]
  BY DEF ListEnvs, Become
<1>2. j \in JobRow /\ StageOK(j) /\ Knows(j) /\ j.kind = "put"
  BY <1>1, StagesTell
<1>3. EnvsOf(j.id) \in SUBSET Nat
  BY Typed DEF EnvsOf
<1>4. new \in JobRow
  BY <1>2, <1>3, Words DEF JobRow
<1>5. Alike(j, new) /\ new.at = "next" /\ new.id = j.id /\ new.todo = EnvsOf(j.id)
  BY <1>2 DEF JobRow, Alike, Similar
<1>6. r \in lone => KnowsPlaces(j)
  BY DEF RegistrationsIInv, OwnOK
<1>7. j.at = "envs"
  BY <1>1
<1> HIDE DEF j, new
<1>8. StageOK(new) /\ Knows(new) /\ Finds(new)
  BY <1>2, <1>5, <1>7 DEF Alike, Similar, StageOK, Knows, Finds, Enlisting, Placed, RegStages, AppStages
<1>9. r \in lone => KnowsMembers(new) /\ KnowsPlaces(new) /\ KnowsRegs(new)
  BY <1>2, <1>5, <1>6, <1>7 DEF Alike, Similar, KnowsMembers, KnowsPlaces, KnowsRegs, AppStages
<1> QED
  BY <1>1, <1>4, <1>5, <1>8, <1>9, MoveKeeps DEF j

\* What assignedNamespace and assignedEnvHost make of a project.
LEMMA Assigns ==
    ASSUME NEW id \in Ids, NEW row \in Row, NEW name \in EnvName
    PROVE  /\ Assigned(id, row, name) \in Env
           /\ Assigned(id, row, name).of = id /\ Assigned(id, row, name).name = name
           /\ Assigned(id, row, name).ns = row.name /\ row.name \in Names
BY DEF Assigned, Row, Env

LEMMA NextEnvKeeps ==
    ASSUME RegistrationsIInv, NEW r \in Reqs, NextEnv(r), UNCHANGED <<regs, apps>>, Observe
    PROVE  RegistrationsIInv'
<1> DEFINE j == job[r]
<1>1. j.at = "next" /\ UNCHANGED <<project, envs, member, started>>
  BY DEF NextEnv
<1>2. j \in JobRow /\ StageOK(j) /\ Knows(j) /\ j.kind = "put"
  BY <1>1, StagesTell
<1>3. r \in lone => KnowsPlaces(j)
  BY DEF RegistrationsIInv, OwnOK
<1>4. CASE j.todo = {}
  <2> DEFINE new == [j EXCEPT !.at = "answer"]
  <2>1. job' = [job EXCEPT ![r] = new]
    BY <1>4 DEF NextEnv, Go, RegistrationsIInv
  <2>2. new \in JobRow
    BY <1>2, Words DEF JobRow
  <2>3. Alike(j, new) /\ new.at = "answer" /\ new.id = j.id
    BY <1>2 DEF JobRow, Alike, Similar
  <2> HIDE DEF j, new
  <2>4. StageOK(new) /\ Knows(new) /\ Finds(new)
    BY <1>1, <1>2, <2>3 DEF Alike, Similar, StageOK, Knows, Finds, Enlisting, Placed, RegStages, AppStages
  <2>5. r \in lone => KnowsMembers(new) /\ KnowsPlaces(new) /\ KnowsRegs(new)
    BY <1>1, <1>2, <1>3, <1>4, <2>3 DEF Alike, Similar, KnowsMembers, KnowsPlaces, KnowsRegs, AppStages
  <2> QED
    BY <1>1, <2>1, <2>2, <2>3, <2>4, <2>5, MoveKeeps DEF j
<1>5. ASSUME NEW i \in j.todo,
             Become(r, [SaveEnv(j, i, Assigned(j.id, j.copy, envs[i].name)) EXCEPT !.todo = @ \ {i}])
      PROVE  RegistrationsIInv'
  <2> DEFINE place == Assigned(j.id, j.copy, envs[i].name)
             todo == j.todo \ {i}
             new == [j EXCEPT !.at = "updateEnv", !.env = i, !.place = place, !.was = envs[i], !.todo = todo]
  <2>1. i \in EnvsOf(j.id) /\ j.id \in Ids /\ j.copy \in Row
    BY <1>1, <1>2 DEF Knows, AppStages
  <2>2. envs[i] \in Env /\ envs[i].of = j.id /\ envs[i].name \in EnvName /\ i \in Nat
    BY <2>1, Typed DEF EnvsOf, Env
  <2>3. place \in Env /\ place.of = j.id /\ place.name = envs[i].name
    BY <2>1, <2>2, Assigns
  <2>4. todo \in SUBSET Nat
    BY <1>2 DEF JobRow
  <2>5. job' = [job EXCEPT ![r] = new]
    BY <1>2, <1>5 DEF Become, SaveEnv, JobRow
  <2>6. place = Assigned(j.id, j.copy, envs[i].name) /\ todo = j.todo \ {i}
    OBVIOUS
  <2> HIDE DEF place, todo
  <2>7. new \in JobRow
    BY <1>2, <2>2, <2>3, <2>4, Words DEF JobRow
  <2>8. /\ Alike(j, new) /\ new.at = "updateEnv" /\ new.id = j.id /\ new.env = i
        /\ new.place = place /\ new.was = envs[i] /\ new.todo = todo
    BY <1>2 DEF JobRow, Alike, Similar
  <2> HIDE DEF j, new
  <2>9. StageOK(new) /\ Knows(new) /\ Finds(new)
    BY <1>1, <1>2, <2>1, <2>2, <2>3, <2>6, <2>8 DEF Alike, Similar, StageOK, Knows, Finds, Enlisting, Placed, RegStages, AppStages
  <2>10. r \in lone => KnowsMembers(new) /\ KnowsPlaces(new) /\ KnowsRegs(new)
    BY <1>1, <1>2, <1>3, <2>6, <2>8 DEF Alike, Similar, KnowsMembers, KnowsPlaces, KnowsRegs, AppStages
  <2> QED
    BY <1>1, <2>5, <2>7, <2>8, <2>9, <2>10, MoveKeeps DEF j
<1> QED
  BY <1>4, <1>5 DEF NextEnv

LEMMA EnsureOwnerKeeps ==
    ASSUME RegistrationsIInv, NEW r \in Reqs, EnsureOwner(r), UNCHANGED <<regs, apps>>, Observe
    PROVE  RegistrationsIInv'
<1> DEFINE j == job[r]
           row == member[j.id][j.user]
           held == [row EXCEPT !.role = "owner"]
           at == IF row.gen = 0 THEN "enlist" ELSE IF row.role = "owner" THEN "answer" ELSE "selectMember"
           new == [j EXCEPT !.held = held, !.at = at]
<1>1. j.at = "owner" /\ UNCHANGED <<project, envs, member, started>> /\ job' = [job EXCEPT ![r] = new]
  BY DEF EnsureOwner, Become
<1>2. j \in JobRow /\ StageOK(j) /\ Knows(j) /\ j.kind = "create"
  BY <1>1, StagesTell
<1>3. j.id \in Ids /\ j.user \in Users
  BY <1>1, <1>2 DEF Knows, AppStages
<1>4. row \in Member /\ held \in Member
  BY <1>3, MembersTyped DEF Roles, Rank
<1>5. held.role = "owner" /\ held.gen = row.gen
  BY <1>4 DEF Member
<1>6. /\ at \in {"enlist", "answer", "selectMember"}
      /\ at = "selectMember" => row.gen # 0
      /\ at = "answer" => row.gen # 0 /\ row.role = "owner"
  OBVIOUS
<1>7. row = member[j.id][j.user]
  OBVIOUS
<1> HIDE DEF row, held, at
<1>8. new \in JobRow
  <2>1. at \in AllStages
    BY <1>6, Words
  <2> QED
    BY <1>2, <1>4, <2>1 DEF JobRow
<1>9. Alike(j, new) /\ new.at = at /\ new.id = j.id /\ new.held = held
  BY <1>2 DEF JobRow, Alike, Similar
<1> HIDE DEF j, new
<1>10. StageOK(new) /\ Knows(new) /\ Finds(new)
  BY <1>1, <1>2, <1>5, <1>6, <1>9 DEF Alike, Similar, StageOK, Knows, Finds, Enlisting, Placed, RegStages, AppStages
<1>11. KnowsMembers(new) /\ KnowsPlaces(new) /\ KnowsRegs(new)
  BY <1>2, <1>3, <1>5, <1>6, <1>7, <1>9 DEF Alike, Similar, KnowsMembers, KnowsPlaces, KnowsRegs, Owners, AppStages
<1> QED
  BY <1>1, <1>6, <1>8, <1>9, <1>10, <1>11, MoveKeeps DEF j

LEMMA SelectMemberKeeps ==
    ASSUME RegistrationsIInv, NEW r \in Reqs, SelectMember(r), UNCHANGED <<regs, apps>>, Observe
    PROVE  RegistrationsIInv'
<1> DEFINE j == job[r]
           row == member[j.id][j.user]
           found == IF row.gen = j.held.gen THEN row ELSE NoMember
           new == [j EXCEPT !.at = "updateMember", !.found = found]
<1>1. j.at = "selectMember" /\ UNCHANGED <<project, envs, member, started>> /\ job' = [job EXCEPT ![r] = new]
  BY DEF SelectMember, Become
<1>2. j \in JobRow /\ StageOK(j) /\ Knows(j) /\ j.kind \in {"create", "grant", "role"}
  BY <1>1, StagesTell DEF Enlisting
<1>3. j.id \in Ids /\ j.user \in Users
  BY <1>1, <1>2 DEF Knows, AppStages
<1>4. row \in Member /\ found \in Member
  <2>1. row \in Member
    BY <1>3, Typed DEF RowsOK
  <2>2. NoMember \in Member
    BY Nothing
  <2> QED
    BY <2>1, <2>2
<1>5. r \in lone => KnowsMembers(j)
  BY DEF RegistrationsIInv, OwnOK
<1>6. row = member[j.id][j.user] /\ (row.gen = j.held.gen => found = row)
  OBVIOUS
<1> HIDE DEF row, found
<1>7. new \in JobRow
  BY <1>2, <1>4, Words DEF JobRow
<1>8. Alike(j, new) /\ new.at = "updateMember" /\ new.id = j.id /\ new.found = found /\ new.held = j.held
  BY <1>2 DEF JobRow, Alike, Similar
<1> HIDE DEF j, new
<1>9. StageOK(new) /\ Knows(new) /\ Finds(new)
  BY <1>1, <1>2, <1>8 DEF Alike, Similar, StageOK, Knows, Finds, Enlisting, Placed, RegStages, AppStages
<1>10. r \in lone => KnowsMembers(new) /\ KnowsPlaces(new) /\ KnowsRegs(new)
  BY <1>1, <1>2, <1>5, <1>6, <1>8 DEF Alike, Similar, KnowsMembers, KnowsPlaces, KnowsRegs, AppStages
<1> QED
  BY <1>1, <1>7, <1>8, <1>9, <1>10, MoveKeeps DEF j

\* Owners who are counted more than one are not one user only.
LEMMA AnotherOwner ==
    ASSUME NEW id \in Ids, NEW u \in Owners(id), ~(Cardinality(Owners(id)) <= 1)
    PROVE  \E w \in Owners(id) : w # u
<1> SUFFICES ASSUME Owners(id) = {u} PROVE FALSE
  OBVIOUS
<1> QED
  BY FS_Singleton

LEMMA CountKeeps ==
    ASSUME RegistrationsIInv, NEW r \in Reqs, Count(r), UNCHANGED <<regs, apps>>, Observe
    PROVE  RegistrationsIInv'
<1> DEFINE j == job[r]
           new == [j EXCEPT !.at = "remove"]
<1>1. j.at = "count" /\ UNCHANGED <<project, envs, member, started>>
  BY DEF Count
<1>2. CASE End(r)
  BY <1>1, <1>2, EndKeeps
<1>3. CASE Go(r, "remove") /\ ~(Cardinality(Owners(j.id)) <= 1)
  <2>1. j \in JobRow /\ StageOK(j) /\ Knows(j) /\ j.kind = "revoke"
    BY <1>1, StagesTell
  <2>2. job' = [job EXCEPT ![r] = new]
    BY <1>3 DEF Go, RegistrationsIInv
  <2>3. new \in JobRow
    BY <2>1, Words DEF JobRow
  <2>4. Alike(j, new) /\ new.at = "remove" /\ new.id = j.id /\ new.held = j.held
    BY <2>1 DEF JobRow, Alike, Similar
  <2>5. r \in lone => KnowsMembers(j)
    BY DEF RegistrationsIInv, OwnOK
  <2>6. j.id \in Ids
    BY <1>1, <2>1 DEF Knows, AppStages
  <2>7. j.user \in Owners(j.id) => \E w \in Owners(j.id) : w # j.user
    BY <1>3, <2>6, AnotherOwner
  <2> HIDE DEF j, new
  <2>8. StageOK(new) /\ Knows(new) /\ Finds(new)
    BY <1>1, <2>1, <2>4 DEF Alike, Similar, StageOK, Knows, Finds, Enlisting, Placed, RegStages, AppStages
  <2>9. r \in lone => KnowsMembers(new) /\ KnowsPlaces(new) /\ KnowsRegs(new)
    BY <1>1, <2>1, <2>4, <2>5, <2>7 DEF Alike, Similar, KnowsMembers, KnowsPlaces, KnowsRegs, AppStages
  <2> QED
    BY <1>1, <2>2, <2>3, <2>4, <2>8, <2>9, MoveKeeps DEF j
<1> QED
  BY <1>2, <1>3 DEF Count

LEMMA EndsKeep ==
    ASSUME RegistrationsIInv, NEW r \in Reqs, Answer(r) \/ Abandon(r), UNCHANGED <<regs, apps>>, Observe
    PROVE  RegistrationsIInv'
BY EndKeeps DEF Answer, Abandon

\* What a registration that looks for its environment or goes on knows.
LEMMA RegisterKnows ==
    ASSUME RegistrationsIInv, NEW r \in Reqs, job[r].kind = "register", job[r].at \in Placed \cup {"findEnv", "insertEnv"}
    PROVE  LET j == job[r] IN
           /\ j \in JobRow /\ StageOK(j) /\ Knows(j)
           /\ j.id \in Ids /\ j.copy \in Row /\ Exists(j.id) /\ j.name \in EnvName
           /\ j.name \in {EnvNames[k] : k \in DOMAIN EnvNames}
           /\ j.at # "findEnv" => j.place = Assigned(j.id, j.copy, j.name) /\ j.place \in Env
                                  /\ PlaceOf(j) \in Places
           /\ j.at \in Placed => /\ j.env \in DOMAIN envs /\ envs[j.env] \in Env
                                 /\ envs[j.env].of = j.id /\ envs[j.env].name = j.name
<1>1. job[r] \in JobRow /\ StageOK(job[r]) /\ Knows(job[r])
  BY StagesTell
<1>2. /\ job[r].id \in Ids /\ job[r].copy \in Row /\ Exists(job[r].id)
      /\ job[r].name \in {EnvNames[k] : k \in DOMAIN EnvNames}
  BY <1>1 DEF Knows, Placed, RegStages, AppStages
<1>3. job[r].name \in EnvName
  BY <1>2 DEF EnvName
<1>4. Assigned(job[r].id, job[r].copy, job[r].name) \in Env
      /\ <<Assigned(job[r].id, job[r].copy, job[r].name).ns, job[r].name>> \in Places
  BY <1>2, <1>3, Assigns DEF Places
<1>5. job[r].at # "findEnv" => job[r].place = Assigned(job[r].id, job[r].copy, job[r].name)
  BY <1>1 DEF Knows, AppStages
<1>6. job[r].at \in Placed => job[r].env \in EnvsNamed(job[r])
  BY <1>1 DEF Knows, AppStages
<1>7. job[r].at \in Placed => /\ job[r].env \in DOMAIN envs /\ envs[job[r].env] \in Env
                              /\ envs[job[r].env].of = job[r].id /\ envs[job[r].env].name = job[r].name
  BY <1>6, Typed DEF EnvsNamed, EnvsOf
<1> QED
  BY <1>1, <1>2, <1>3, <1>4, <1>5, <1>7 DEF PlaceOf

LEMMA FindEnvKeeps ==
    ASSUME RegistrationsIInv, NEW r \in Reqs, FindEnv(r), Observe
    PROVE  RegistrationsIInv'
<1> DEFINE j == job[r]
           place == Assigned(j.id, j.copy, j.name)
<1>1. j.at = "findEnv" /\ UNCHANGED <<project, envs, member, started, regs, apps>>
  BY DEF FindEnv, portal
<1>2. j.kind = "register"
  BY <1>1, StagesTell
<1>3. /\ j \in JobRow /\ StageOK(j) /\ Knows(j) /\ j.id \in Ids /\ j.copy \in Row /\ j.name \in EnvName
  BY <1>1, <1>2, RegisterKnows DEF Placed
<1>4. place \in Env /\ place.of = j.id /\ place.name = j.name
  BY <1>3, Assigns
<1>5. r \in lone => KnowsRegs(j)
  BY DEF RegistrationsIInv, OwnOK
<1>6. place = Assigned(j.id, j.copy, j.name)
  OBVIOUS
<1>7. CASE EnvsNamed(j) = {} /\ Become(r, [j EXCEPT !.at = "insertEnv", !.place = place])
  <2> DEFINE new == [j EXCEPT !.at = "insertEnv", !.place = place]
  <2>1. job' = [job EXCEPT ![r] = new]
    BY <1>7 DEF Become
  <2> HIDE DEF place
  <2>2. new \in JobRow
    BY <1>3, <1>4, Words DEF JobRow
  <2>3. Alike(j, new) /\ new.at = "insertEnv" /\ new.id = j.id /\ new.place = place
    BY <1>3 DEF JobRow, Alike, Similar
  <2> HIDE DEF j, new
  <2>4. StageOK(new) /\ Knows(new)
    BY <1>1, <1>2, <1>3, <1>6, <2>3 DEF Alike, Similar, StageOK, Knows, Enlisting, Placed, RegStages, AppStages
  <2>5. Finds(new)
    BY <1>7, <2>3 DEF Alike, Similar, Finds, EnvsNamed
  <2>6. r \in lone => KnowsMembers(new) /\ KnowsPlaces(new) /\ KnowsRegs(new)
    BY <1>1, <1>2, <1>5, <2>3 DEF Alike, Similar, KnowsMembers, KnowsPlaces, KnowsRegs, RegStages, AppStages
  <2> QED
    BY <1>1, <2>1, <2>2, <2>3, <2>4, <2>5, <2>6, MoveKeeps DEF j
<1>8. ASSUME NEW i \in EnvsNamed(j),
             Become(r, [j EXCEPT !.at = IF place = envs[i] THEN "findReg" ELSE "selectEnv",
                                 !.env = i, !.place = place])
      PROVE  RegistrationsIInv'
  <2> DEFINE at == IF place = envs[i] THEN "findReg" ELSE "selectEnv"
             new == [j EXCEPT !.at = at, !.env = i, !.place = place]
  <2>1. job' = [job EXCEPT ![r] = new]
    BY <1>8 DEF Become
  <2>2. at \in {"findReg", "selectEnv"} /\ (at = "findReg" => place = envs[i])
    OBVIOUS
  <2>3. i \in Nat
    BY Typed DEF EnvsNamed, EnvsOf
  <2> HIDE DEF place, at
  <2>4. new \in JobRow
    <3>1. at \in AllStages
      BY <2>2, Words
    <3> QED
      BY <1>3, <1>4, <2>3, <3>1 DEF JobRow
  <2>5. Alike(j, new) /\ new.at = at /\ new.id = j.id /\ new.place = place /\ new.env = i
    BY <1>3 DEF JobRow, Alike, Similar
  <2> HIDE DEF j, new
  <2>6. EnvsNamed(new) = EnvsNamed(j)
    BY <2>5 DEF Alike, Similar, EnvsNamed
  <2>7. StageOK(new) /\ Knows(new) /\ Finds(new)
    BY <1>1, <1>2, <1>3, <1>6, <2>2, <2>5, <2>6 DEF Alike, Similar, StageOK, Knows, Finds, Enlisting, Placed, RegStages, AppStages
  <2>8. r \in lone => KnowsMembers(new) /\ KnowsPlaces(new) /\ KnowsRegs(new)
    BY <1>1, <1>2, <1>5, <2>2, <2>5 DEF Alike, Similar, KnowsMembers, KnowsPlaces, KnowsRegs, RegStages, AppStages
  <2> QED
    BY <1>1, <2>1, <2>2, <2>4, <2>5, <2>7, <2>8, MoveKeeps DEF j
<1> QED
  BY <1>7, <1>8 DEF FindEnv, Forced

LEMMA SelectEnvKeeps ==
    ASSUME RegistrationsIInv, NEW r \in Reqs, SelectEnv(r), Observe
    PROVE  RegistrationsIInv'
<1> DEFINE j == job[r]
           new == [j EXCEPT !.at = "updateEnv", !.was = envs[j.env]]
<1>1. j.at = "selectEnv" /\ UNCHANGED <<project, envs, member, started, regs, apps>>
  BY DEF SelectEnv, portal
<1>2. j.kind = "register"
  BY <1>1, StagesTell
<1>3. /\ j \in JobRow /\ StageOK(j) /\ Knows(j) /\ j.id \in Ids /\ j.copy \in Row /\ j.name \in EnvName
      /\ j.place = Assigned(j.id, j.copy, j.name) /\ j.place \in Env
      /\ j.env \in DOMAIN envs /\ envs[j.env] \in Env
      /\ envs[j.env].of = j.id /\ envs[j.env].name = j.name
  BY <1>1, <1>2, RegisterKnows DEF Placed
<1>4. job' = [job EXCEPT ![r] = new]
  <2>1. SaveEnv(j, j.env, j.place) = new
    BY <1>3 DEF SaveEnv, JobRow
  <2> QED
    BY <2>1 DEF SelectEnv, Become
<1>5. j.place.of = j.id /\ j.place.name = j.name
  BY <1>3, Assigns
<1>6. r \in lone => KnowsRegs(j)
  BY DEF RegistrationsIInv, OwnOK
<1>7. new \in JobRow
  BY <1>3, Words DEF JobRow
<1>8. /\ Alike(j, new) /\ new.at = "updateEnv" /\ new.id = j.id /\ new.place = j.place /\ new.env = j.env
      /\ new.was = envs[j.env]
  BY <1>3 DEF JobRow, Alike, Similar
<1> HIDE DEF j, new
<1>9. EnvsNamed(new) = EnvsNamed(j) /\ j.env \in EnvsOf(j.id)
  BY <1>3, <1>8 DEF Alike, Similar, EnvsNamed, EnvsOf
<1>10. StageOK(new) /\ Knows(new) /\ Finds(new)
  BY <1>1, <1>2, <1>3, <1>5, <1>8, <1>9 DEF Alike, Similar, StageOK, Knows, Finds, Enlisting, Placed, RegStages, AppStages
<1>11. r \in lone => KnowsMembers(new) /\ KnowsPlaces(new) /\ KnowsRegs(new)
  BY <1>1, <1>2, <1>3, <1>6, <1>8 DEF Alike, Similar, KnowsMembers, KnowsPlaces, KnowsRegs, RegStages, AppStages
<1> QED
  BY <1>1, <1>4, <1>7, <1>8, <1>10, <1>11, MoveKeeps DEF j

LEMMA FindRegKeeps ==
    ASSUME RegistrationsIInv, NEW r \in Reqs, FindReg(r), Observe
    PROVE  RegistrationsIInv'
<1> DEFINE j == job[r]
<1>1. j.at = "findReg" /\ UNCHANGED <<project, envs, member, started, regs, apps>>
  BY DEF FindReg, portal
<1>2. j.kind = "register"
  BY <1>1, StagesTell
<1>3. j \in JobRow /\ StageOK(j) /\ Knows(j) /\ j.at \in Placed
  BY <1>1, <1>2, RegisterKnows DEF Placed, RegStages, AppStages
<1>4. r \in lone => KnowsRegs(j)
  BY DEF RegistrationsIInv, OwnOK
<1>5. CASE RegsAt(j) = {} /\ Go(r, "insertReg")
  <2> DEFINE new == [j EXCEPT !.at = "insertReg"]
  <2>1. job' = [job EXCEPT ![r] = new]
    BY <1>5 DEF Go, RegistrationsIInv
  <2>2. new \in JobRow
    BY <1>3, Words DEF JobRow
  <2>3. Alike(j, new) /\ new.at = "insertReg" /\ new.id = j.id /\ new.place = j.place /\ new.env = j.env
    BY <1>3 DEF JobRow, Alike, Similar
  <2> HIDE DEF j, new
  <2>4. EnvsNamed(new) = EnvsNamed(j) /\ RegsAt(new) = RegsAt(j)
    BY <2>3 DEF Alike, Similar, EnvsNamed, RegsAt
  <2>5. StageOK(new) /\ Knows(new)
    BY <1>1, <1>2, <1>3, <2>3, <2>4 DEF Alike, Similar, StageOK, Knows, Enlisting, Placed, RegStages, AppStages
  <2>6. Finds(new)
    BY <1>5, <2>3, <2>4 DEF Finds
  <2>7. r \in lone => KnowsMembers(new) /\ KnowsPlaces(new) /\ KnowsRegs(new)
    BY <1>1, <1>2, <1>4, <2>3 DEF Alike, Similar, KnowsMembers, KnowsPlaces, KnowsRegs, RegStages, AppStages
  <2> QED
    BY <1>1, <2>1, <2>2, <2>3, <2>5, <2>6, <2>7, MoveKeeps DEF j
<1>6. ASSUME NEW i \in RegsAt(j), Become(r, [j EXCEPT !.at = "selectReg", !.reg = i])
      PROVE  RegistrationsIInv'
  <2> DEFINE new == [j EXCEPT !.at = "selectReg", !.reg = i]
  <2>1. job' = [job EXCEPT ![r] = new]
    BY <1>6 DEF Become
  <2>2. i \in DOMAIN regs /\ i \in Nat
    BY Typed DEF RegsAt
  <2>3. new \in JobRow
    BY <1>3, <2>2, Words DEF JobRow
  <2>4. /\ Alike(j, new) /\ new.at = "selectReg" /\ new.id = j.id /\ new.place = j.place /\ new.env = j.env
        /\ new.reg = i
    BY <1>3 DEF JobRow, Alike, Similar
  <2> HIDE DEF j, new
  <2>5. EnvsNamed(new) = EnvsNamed(j) /\ RegsAt(new) = RegsAt(j)
    BY <2>4 DEF Alike, Similar, EnvsNamed, RegsAt
  <2>6. StageOK(new) /\ Knows(new) /\ Finds(new)
    BY <1>1, <1>2, <1>3, <2>2, <2>4, <2>5 DEF Alike, Similar, StageOK, Knows, Finds, Enlisting, Placed, RegStages, AppStages
  <2>7. r \in lone => KnowsMembers(new) /\ KnowsPlaces(new) /\ KnowsRegs(new)
    BY <1>1, <1>2, <1>4, <2>4 DEF Alike, Similar, KnowsMembers, KnowsPlaces, KnowsRegs, RegStages, AppStages
  <2> QED
    BY <1>1, <2>1, <2>3, <2>4, <2>6, <2>7, MoveKeeps DEF j
<1> QED
  BY <1>5, <1>6 DEF FindReg

LEMMA SelectRegKeeps ==
    ASSUME RegistrationsIInv, NEW r \in Reqs, SelectReg(r), Observe
    PROVE  RegistrationsIInv'
<1> DEFINE j == job[r]
           status == regs[j.reg].status
           new == [j EXCEPT !.at = "updateReg", !.status = status]
<1>1. /\ j.at = "selectReg" /\ UNCHANGED <<project, envs, member, started, regs, apps>>
      /\ job' = [job EXCEPT ![r] = new]
  BY DEF SelectReg, portal, Become
<1>2. j \in JobRow /\ StageOK(j) /\ Knows(j) /\ j.kind \in {"register", "deregister", "beat"}
  BY <1>1, StagesTell
<1>3. j.reg \in DOMAIN regs
  BY <1>1, <1>2 DEF Knows, AppStages
<1>4. status \in {"online", "offline"} /\ status = regs[j.reg].status
  BY <1>3, Typed DEF Reg
<1>5. r \in lone => KnowsRegs(j)
  BY DEF RegistrationsIInv, OwnOK
<1> HIDE DEF status
<1>6. new \in JobRow
  <2>1. "updateReg" \in AllStages /\ status \in {"", "online", "offline"}
    BY <1>4, Words
  <2>2. j \in JobRow
    BY <1>2
  <2> HIDE DEF j
  <2> QED
    BY <2>1, <2>2 DEF JobRow
<1>7. /\ Alike(j, new) /\ new.at = "updateReg" /\ new.id = j.id /\ new.place = j.place /\ new.env = j.env
      /\ new.reg = j.reg /\ new.status = status
  BY <1>2 DEF JobRow, Alike, Similar
<1> HIDE DEF j, new
<1>8. EnvsNamed(new) = EnvsNamed(j) /\ RegsAt(new) = RegsAt(j)
  BY <1>7 DEF Alike, Similar, EnvsNamed, RegsAt
<1>9. StageOK(new) /\ Knows(new) /\ Finds(new)
  BY <1>1, <1>2, <1>7, <1>8 DEF Alike, Similar, StageOK, Knows, Finds, Enlisting, Placed, RegStages, AppStages
<1>10. r \in lone => KnowsMembers(new) /\ KnowsPlaces(new) /\ KnowsRegs(new)
  BY <1>1, <1>2, <1>4, <1>5, <1>7 DEF Alike, Similar, KnowsMembers, KnowsPlaces, KnowsRegs, RegStages, AppStages
<1> QED
  BY <1>1, <1>6, <1>7, <1>9, <1>10, MoveKeeps DEF j

\* A registration that has its own goes on to the next call about the Application, or answers.
LEMMA AppGoesOn ==
    ASSUME RegistrationsIInv, NEW r \in Reqs, job[r].at \in AppStages, Observe,
           UNCHANGED <<project, envs, member, started, regs, apps>>,
           NEW at \in {"replaceApp", "createApp", "answer"}, NEW version \in 0 .. MaxRequests + 1,
           job' = [job EXCEPT ![r] = [job[r] EXCEPT !.at = at, !.app = version]]
    PROVE  RegistrationsIInv'
<1> DEFINE j == job[r]
           new == [j EXCEPT !.at = at, !.app = version]
<1>1. j.kind = "register" /\ j.at \in AppStages
  BY StagesTell
<1>2. j \in JobRow /\ StageOK(j) /\ Knows(j)
  BY StagesTell
<1>3. r \in lone => KnowsRegs(j)
  BY DEF RegistrationsIInv, OwnOK
<1>4. new \in JobRow
  <2>1. at \in AllStages
    BY Words DEF AppStages
  <2>2. j \in JobRow
    BY <1>2
  <2> HIDE DEF j
  <2> QED
    BY <2>1, <2>2 DEF JobRow
<1>5. /\ Alike(j, new) /\ new.at = at /\ new.id = j.id /\ new.place = j.place /\ new.env = j.env
      /\ new.reg = j.reg
  BY <1>2 DEF JobRow, Alike, Similar
<1>6. job' = [job EXCEPT ![r] = new] /\ job[r].at \notin {"idle", "remove"}
  BY <1>1 DEF AppStages
<1> HIDE DEF j, new
<1>7. EnvsNamed(new) = EnvsNamed(j) /\ RegsAt(new) = RegsAt(j) /\ PlaceOf(new) = PlaceOf(j)
  BY <1>5 DEF Alike, Similar, EnvsNamed, RegsAt, PlaceOf
<1>8. new.gitops = ""
  <2>1. job[r].at # "answer"
    BY DEF AppStages
  <2> QED
    BY <1>5, <2>1, NotWritten DEF Alike, j
<1>9. StageOK(new) /\ Finds(new)
  BY <1>1, <1>5 DEF Alike, Similar, StageOK, Finds, Placed, RegStages, AppStages
<1>10. Knows(new)
  BY <1>1, <1>2, <1>5, <1>7, <1>8 DEF Alike, Similar, Knows, Enlisting, Placed, RegStages, AppStages
<1>11. r \in lone => KnowsMembers(new) /\ KnowsPlaces(new) /\ KnowsRegs(new)
  BY <1>1, <1>3, <1>5, <1>7, <1>8 DEF Alike, Similar, KnowsMembers, KnowsPlaces, KnowsRegs, RegStages, AppStages
<1>12. j = job[r] /\ job[r].at # "answer" /\ new.at # "insertPreview"
  BY <1>1, <1>5 DEF j, AppStages
<1> QED
  BY <1>4, <1>5, <1>6, <1>9, <1>10, <1>11, <1>12, MoveKeeps

\* A registration at its Application knows where that is.
LEMMA AtApplication ==
    ASSUME RegistrationsIInv, NEW r \in Reqs, job[r].at \in AppStages
    PROVE  /\ job[r].kind = "register" /\ job[r] \in JobRow /\ PlaceOf(job[r]) \in Places
           /\ job[r].app \in 0 .. MaxRequests + 1 /\ [job[r] EXCEPT !.app = @] = job[r]
           /\ apps[PlaceOf(job[r])].version \in 0 .. MaxRequests + 1
<1>1. job[r].kind = "register" /\ job[r] \in JobRow
  BY StagesTell
<1>2. PlaceOf(job[r]) \in Places
  BY <1>1, RegisterKnows DEF Placed, RegStages, AppStages
<1>3. job[r].app \in 0 .. MaxRequests + 1 /\ [job[r] EXCEPT !.app = @] = job[r]
  BY <1>1 DEF JobRow
<1>4. apps[PlaceOf(job[r])].version \in 0 .. MaxRequests + 1
  BY <1>2, Typed DEF RowsOK
<1> QED
  BY <1>1, <1>2, <1>3, <1>4

LEMMA GoesOn ==
    ASSUME RegistrationsIInv, NEW r \in Reqs, job[r].at \in AppStages, Observe,
           UNCHANGED <<project, envs, member, started, regs, apps>>,
           NEW at \in {"createApp", "answer"}, Go(r, at)
    PROVE  RegistrationsIInv'
<1>1. job[r] \in JobRow /\ job \in [Reqs -> JobRow] /\ job[r].app \in 0 .. MaxRequests + 1
  BY AtApplication DEF RegistrationsIInv
<1>2. job' = [job EXCEPT ![r] = [job[r] EXCEPT !.at = at, !.app = job[r].app]]
  <2>1. [job[r] EXCEPT !.at = at, !.app = job[r].app] = [job[r] EXCEPT !.at = at]
    BY <1>1 DEF JobRow
  <2> QED
    BY <1>1, <2>1 DEF Go
<1> QED
  BY <1>1, <1>2, AppGoesOn

LEMMA GetAppKeeps ==
    ASSUME RegistrationsIInv, NEW r \in Reqs, GetApp(r), Observe
    PROVE  RegistrationsIInv'
<1> DEFINE version == apps[PlaceOf(job[r])].version
<1>1. /\ job[r].at \in AppStages /\ UNCHANGED <<project, envs, member, started, regs, apps>>
      /\ \/ job' = [job EXCEPT ![r] = [job[r] EXCEPT !.at = "replaceApp", !.app = version]]
         \/ Go(r, "createApp")
  BY DEF GetApp, portal, Become, AppStages
<1>2. version \in 0 .. MaxRequests + 1
  BY <1>1, AtApplication
<1> HIDE DEF version
<1> QED
  BY <1>1, <1>2, AppGoesOn, GoesOn

-----------------------------------------------------------------------------
(* Steps that write the row of a project *)

\* A step by which only its project's row changes, and stays one.
LEMMA ProjectKeeps ==
    ASSUME RegistrationsIInv, NEW r \in Reqs, job[r].kind \in {"create", "put", "delete", "register"},
           job[r].at # "idle", UNCHANGED <<envs, member, started, regs, apps>>, Observe,
           NEW id \in Ids, NEW row \in Row, project' = [project EXCEPT ![id] = row],
           NEW j \in JobRow, job' = [job EXCEPT ![r] = j],
           OwnOK(r)'
    PROVE  RegistrationsIInv'
<1>1. job' \in [Reqs -> JobRow] /\ job'[r] = j /\ \A q \in Reqs \ {r} : job'[q] = job[q]
  BY DEF RegistrationsIInv
<1>2. "places" \in Touches(job[r].kind)
  BY DEF Touches
<1>3. project' \in [Ids -> Row \cup {NoRow}] /\ row # NoRow
  BY Typed, Nothing DEF RowsOK
<1>4. RowsOK'
  BY <1>3, Typed DEF RowsOK
<1>5. Grows
  BY <1>3, Typed DEF Grows, Exists, RowsOK
<1>6. Frame(r)
  BY <1>1, <1>2 DEF Frame
<1>7. Joins(r)
  BY StagesTell DEF Joins
<1>8. Consistent' /\ NoDuplicates'
  BY <1>1, <1>5, History, SameRows
<1> QED
  BY <1>1, <1>4, <1>5, <1>6, <1>7, <1>8, StepKeeps

LEMMA InsertKeeps ==
    ASSUME RegistrationsIInv, NEW r \in Reqs, InsertProject(r) \/ RegisterInserts(r),
           UNCHANGED <<regs, apps>>, Observe
    PROVE  RegistrationsIInv'
<1> DEFINE j == job[r]
           id == CHOOSE i \in Ids : ~Exists(i)
           next == IF j.kind = "create" THEN "env" ELSE "findEnv"
           new == [j EXCEPT !.at = next, !.id = id]
<1>1. /\ j.at = "insert" /\ UNCHANGED <<envs, member, started>> /\ id \in Ids /\ ~Exists(id)
      /\ j.kind \in {"create", "register"}
  BY DEF InsertProject, RegisterInserts, Insert
<1>2. CASE End(r) /\ UNCHANGED project
  BY <1>1, <1>2, EndKeeps
<1>3. CASE project' = [project EXCEPT ![id] = j.copy] /\ Become(r, new)
  <2>1. /\ j \in JobRow /\ StageOK(j) /\ Knows(j)
    BY <1>1, StagesTell
  <2>2. j.copy \in Row
    BY <1>1, <2>1 DEF Knows, AppStages
  <2>3. next \in {"env", "findEnv"} /\ (next = "env" <=> j.kind = "create")
    BY <1>1
  <2>4. job' = [job EXCEPT ![r] = new]
    BY <1>3 DEF Become
  <2> HIDE DEF next, id
  <2>5. new \in JobRow
    <3>1. next \in AllStages
      BY <2>3, Words
    <3> QED
      BY <1>1, <2>1, <3>1 DEF JobRow
  <2>6. Alike(j, new) /\ new.at = next /\ new.id = id /\ new.env = j.env
    BY <2>1 DEF JobRow, Alike, Similar
  <2>7. job'[r] = new /\ (\A q \in Reqs \ {r} : job'[q] = job[q]) /\ job' \in [Reqs -> JobRow]
    BY <2>4, <2>5 DEF RegistrationsIInv
  <2>8. project'[id] = j.copy
    BY <1>1, <1>3, Typed DEF RowsOK
  <2>9. \A i \in DOMAIN envs : envs[i].of # id
    BY <1>1 DEF RegistrationsIInv, Consistent
  <2> HIDE DEF new
  <2>10. new.kind = "create" => new.user \in Users /\ new.user \in invited'[id]
    <3>1. new.kind = "create" => new.user \in Users
      BY <2>1, <2>6 DEF Alike, Similar, Knows, AppStages
    <3>2. new.kind # "grant"
      BY <1>1, <2>6 DEF Alike, Similar
    <3> QED
      BY <1>1, <2>6, <2>7, <3>1, <3>2, Invited
  <2>11. EnvNames \in Seq(STRING) \ {<<>>}
    BY ProjectsAssumption
  <2>12. 0 < Len(EnvNames)
    BY <2>11
  <2>13. project[id] = NoRow /\ project'[id] # NoRow
    BY <1>1, <2>2, <2>8, Nothing DEF Exists
  <2>14. j.kind = "create" => j.env = 0
    BY <1>1, <2>1 DEF Knows, AppStages
  <2>15. StageOK(new)
    BY <1>1, <2>1, <2>3, <2>6 DEF Alike, Similar, StageOK
  <2>16. Knows(job[r])'
    <3>1. project'[new.id] # NoRow
      BY <2>6, <2>13
    <3>2. new.kind = "register" => new.asked = None \/ new.copy.repo = new.asked
      BY <1>1, <2>1, <2>6 DEF Alike, Similar, Knows, AppStages
    <3> HIDE DEF j
    <3> QED
      BY <1>1, <2>1, <2>2, <2>3, <2>6, <2>7, <2>10, <2>12, <2>14, <3>1, <3>2
         DEF Exists, Alike, Similar, Knows, Enlisting, Placed, RegStages, AppStages
  <2>17. Finds(job[r])'
    BY <1>1, <2>3, <2>6, <2>7, <2>9 DEF Finds, EnvsOf
  <2>18. KnowsMembers(job[r])' /\ KnowsPlaces(job[r])' /\ KnowsRegs(job[r])'
    BY <1>1, <2>3, <2>6, <2>7, <2>8 DEF Alike, Similar, KnowsMembers, KnowsPlaces, KnowsRegs, RegStages, AppStages
  <2>19. OwnOK(r)'
    <3>1. Carries(job[r])'
      BY <1>1, <2>3, <2>5, <2>6, <2>7, CarriesOn
    <3> QED
      BY <3>1, <2>7, <2>15, <2>16, <2>17, <2>18 DEF OwnOK, StageOK
  <2> QED
    BY <1>1, <1>3, <2>2, <2>4, <2>5, <2>19, ProjectKeeps
<1> QED
  BY <1>1, <1>2, <1>3 DEF InsertProject, RegisterInserts, Insert

\* save leaves a row of a project, and what the handler holds when nobody changed the row.
LEMMA SavedRow ==
    ASSUME NEW row \in Row, NEW selected \in Row, NEW copy \in Row
    PROVE  Saved(row, selected, copy) \in Row /\ (selected = row => Saved(row, selected, copy) = copy)
BY DEF Row, Saved

LEMMA UpdateKeeps ==
    ASSUME RegistrationsIInv, NEW r \in Reqs, UpdateProject(r) \/ RegisterUpdates(r),
           UNCHANGED <<regs, apps>>, Observe
    PROVE  RegistrationsIInv'
<1> DEFINE j == job[r]
           row == Saved(project[j.id], j.selected, j.copy)
           next == IF j.kind = "register" THEN "findEnv"
                   ELSE IF j.moved /\ j.copy.domain # None THEN "envs" ELSE "answer"
           new == [j EXCEPT !.at = next]
<1>1. j.at = "update" /\ UNCHANGED <<envs, member, started>> /\ j.kind \in {"put", "delete", "register"}
  BY DEF UpdateProject, RegisterUpdates, Update
<1>2. CASE End(r) /\ UNCHANGED project
  BY <1>1, <1>2, EndKeeps
<1>3. CASE project' = [project EXCEPT ![j.id] = row] /\ Go(r, next)
  <2>1. j \in JobRow /\ StageOK(j) /\ Knows(j)
    BY <1>1, StagesTell
  <2>2. j.copy \in Row /\ j.selected \in Row /\ j.id \in Ids /\ Exists(j.id)
    BY <1>1, <2>1 DEF Knows, AppStages
  <2>3. project[j.id] \in Row
    BY <2>2, Typed DEF RowsOK, Exists
  <2>4. row \in Row /\ (j.selected = project[j.id] => row = j.copy)
    BY <2>2, <2>3, SavedRow
  <2>5. /\ next \in {"findEnv", "envs", "answer"} /\ (next = "findEnv" <=> j.kind = "register")
        /\ next = "envs" => j.moved /\ j.copy.domain # None
        /\ next = "answer" => ~j.moved \/ j.copy.domain = None
    BY <1>1
  <2>6. job' = [job EXCEPT ![r] = new]
    BY <1>3 DEF Go, RegistrationsIInv
  <2> HIDE DEF next, row
  <2>7. new \in JobRow
    <3>1. next \in AllStages
      BY <2>5, Words
    <3> QED
      BY <2>1, <3>1 DEF JobRow
  <2>8. Alike(j, new) /\ new.at = next /\ new.id = j.id /\ new.env = j.env
    BY <2>1 DEF JobRow, Alike, Similar
  <2>9. job'[r] = new /\ (\A q \in Reqs \ {r} : job'[q] = job[q]) /\ job' \in [Reqs -> JobRow]
    BY <2>6, <2>7 DEF RegistrationsIInv
  <2>10. project'[j.id] = row /\ row # NoRow
    BY <1>3, <2>2, <2>4, Typed, Nothing DEF RowsOK
  <2>11. r \in lone => j.selected = project[j.id]
    BY <1>1 DEF RegistrationsIInv, OwnOK, KnowsPlaces
  <2>12. r \in lone' => project'[j.id] = j.copy
    BY <1>1, <2>4, <2>9, <2>10, <2>11, History
  <2>13. project' = [project EXCEPT ![j.id] = row]
    BY <1>3
  <2> HIDE DEF new
  <2>14. StageOK(new) /\ (next = "envs" => j.kind = "put")
    <3>1. j.kind = "delete" => ~j.moved
      BY <2>1 DEF Knows, AppStages
    <3> QED
      BY <3>1, <1>1, <2>5, <2>8 DEF Alike, Similar, StageOK, Enlisting, Placed
  <2>15. Knows(job[r])'
    <3>1. project'[new.id] # NoRow
      BY <2>8, <2>10
    <3>2. new.kind = "register" => /\ new.asked = None \/ new.copy.repo = new.asked
                                   /\ new.name \in {EnvNames[k] : k \in DOMAIN EnvNames}
      BY <1>1, <2>1, <2>8 DEF Alike, Similar, Knows, AppStages
    <3>3. new.kind # "none" => new.no # 0
      BY <1>1, <2>1, <2>8 DEF Alike, Similar, Knows, AppStages
    <3>4. new.kind = "delete" => ~new.moved
      BY <1>1, <2>1, <2>8 DEF Alike, Similar, Knows, AppStages
    <3> HIDE DEF j
    <3> QED
      BY <1>1, <2>2, <2>5, <2>8, <2>9, <3>1, <3>2, <3>3, <3>4
         DEF Exists, Alike, Similar, Knows, Enlisting, Placed, RegStages, AppStages
  <2>16. Finds(job[r])'
    BY <1>1, <2>5, <2>8, <2>9 DEF Finds
  <2>17. r \in lone' => KnowsMembers(job[r])' /\ KnowsPlaces(job[r])' /\ KnowsRegs(job[r])'
    <3> HIDE DEF j
    <3> QED
      BY <1>1, <2>5, <2>8, <2>9, <2>12, <2>14 DEF Alike, Similar, KnowsMembers, KnowsPlaces, KnowsRegs, RegStages, AppStages
  <2>18. OwnOK(r)'
    <3>1. Carries(job[r])'
      BY <1>1, <2>5, <2>7, <2>8, <2>9, CarriesOn
    <3> QED
      BY <3>1, <2>9, <2>14, <2>15, <2>16, <2>17 DEF OwnOK, StageOK
  <2> QED
    BY <1>1, <2>2, <2>4, <2>6, <2>7, <2>13, <2>18, ProjectKeeps
<1> QED
  BY <1>1, <1>2, <1>3 DEF UpdateProject, RegisterUpdates, Update

-----------------------------------------------------------------------------
(* Steps that write the rows of environments *)

\* A step by which only environments change, none of which is lost.
LEMMA EnvsKeep ==
    ASSUME RegistrationsIInv, NEW r \in Reqs, job[r].kind \in {"create", "put", "preview", "register"},
           job[r].at # "idle", UNCHANGED <<project, member, started, regs, apps>>, Observe,
           envs' \in Seq(Env), DOMAIN envs \subseteq DOMAIN envs',
           \A i \in DOMAIN envs : envs'[i].of = envs[i].of /\ envs'[i].name = envs[i].name,
           \A i \in DOMAIN envs' : Exists(envs'[i].of),
           ~raced => \A i, k \in DOMAIN envs' :
                        envs'[i].of = envs'[k].of /\ envs'[i].name = envs'[k].name /\ envs'[i].name # Preview => i = k,
           NEW j \in JobRow, job' = [job EXCEPT ![r] = j],
           job[r].at \notin {"remove"},
           OwnOK(r)'
    PROVE  RegistrationsIInv'
<1>1. job' \in [Reqs -> JobRow] /\ job'[r] = j /\ \A q \in Reqs \ {r} : job'[q] = job[q]
  BY DEF RegistrationsIInv
<1>2. "places" \in Touches(job[r].kind)
  BY DEF Touches
<1>3. RowsOK'
  BY Typed DEF RowsOK
<1>4. Grows
  BY DEF Grows, Exists
<1>5. Frame(r)
  BY <1>1, <1>2 DEF Frame
<1>6. Joins(r)
  BY DEF Joins
<1>7. Consistent'
  BY DEF RegistrationsIInv, Consistent, Exists
<1>8. NoDuplicates'
  BY <1>1, History DEF RegistrationsIInv, NoDuplicates
<1> QED
  BY <1>1, <1>3, <1>4, <1>5, <1>6, <1>7, <1>8, StepKeeps

\* An environment that is inserted is the last one.
LEMMA Inserted ==
    ASSUME RegistrationsIInv, NEW place \in Env, envs' = Append(envs, place)
    PROVE  /\ envs' \in Seq(Env) /\ Len(envs) + 1 \in Nat
           /\ DOMAIN envs' = DOMAIN envs \cup {Len(envs) + 1} /\ Len(envs) + 1 \notin DOMAIN envs
           /\ envs'[Len(envs) + 1] = place
           /\ \A i \in DOMAIN envs : envs'[i] = envs[i]
<1>1. envs \in Seq(Env)
  BY Typed DEF RowsOK
<1> QED
  BY <1>1

LEMMA MakeEnvKeeps ==
    ASSUME RegistrationsIInv, NEW r \in Reqs, MakeEnv(r), UNCHANGED <<regs, apps>>, Observe
    PROVE  RegistrationsIInv'
<1> DEFINE j == job[r]
           k == j.env + 1
           last == Len(envs) + 1
           place == Assigned(j.id, j.copy, EnvNames[k])
           at == IF k = Len(EnvNames) THEN "owner" ELSE "env"
           new == [j EXCEPT !.env = k, !.at = at]
<1>1. /\ j.at = "env" /\ UNCHANGED <<project, member, started, regs, apps>>
      /\ envs' = Append(envs, place) /\ job' = [job EXCEPT ![r] = new]
  BY DEF MakeEnv, Become
<1>2. j \in JobRow /\ StageOK(j) /\ Knows(j) /\ j.kind = "create"
  BY <1>1, StagesTell
<1>3. j.id \in Ids /\ Exists(j.id) /\ j.copy \in Row /\ j.user \in Users /\ j.env < Len(EnvNames)
  BY <1>1, <1>2 DEF Knows, AppStages
<1>4. j.env \in Nat /\ EnvNames \in Seq(STRING)
  BY <1>2, ProjectsAssumption DEF JobRow
<1>5. /\ k \in Nat /\ k \in 1 .. Len(EnvNames) /\ EnvNames[k] \in EnvName /\ 1 .. k = (1 .. j.env) \cup {k}
      /\ k \notin 1 .. j.env /\ 1 .. j.env \subseteq DOMAIN EnvNames /\ k \in DOMAIN EnvNames
      /\ DOMAIN EnvNames = 1 .. Len(EnvNames)
  <2>1. Len(EnvNames) \in Nat /\ DOMAIN EnvNames = 1 .. Len(EnvNames)
    BY <1>4
  <2>2. k \in Nat /\ k \in 1 .. Len(EnvNames) /\ 1 .. k = (1 .. j.env) \cup {k}
        /\ k \notin 1 .. j.env /\ 1 .. j.env \subseteq 1 .. Len(EnvNames)
    BY <1>3, <1>4, <2>1
  <2>3. EnvNames[k] \in EnvName
    BY <1>4, <2>1, <2>2 DEF EnvName
  <2> QED
    BY <2>1, <2>2, <2>3
<1>6. place \in Env /\ place.of = j.id /\ place.name = EnvNames[k]
  BY <1>3, <1>5, Assigns
<1>7. at \in {"owner", "env"} /\ (at = "env" => k < Len(EnvNames)) /\ (at = "owner" => k = Len(EnvNames))
  BY <1>5
<1> HIDE DEF at, place, k, last
<1>8. new \in JobRow
  <2>1. at \in AllStages
    BY <1>7, Words
  <2> QED
    BY <1>2, <1>5, <2>1 DEF JobRow
<1>9. Alike(j, new) /\ new.at = at /\ new.id = j.id /\ new.env = k
  BY <1>2 DEF JobRow, Alike, Similar
<1>10. job'[r] = new /\ (\A q \in Reqs \ {r} : job'[q] = job[q]) /\ job' \in [Reqs -> JobRow]
  BY <1>1, <1>8 DEF RegistrationsIInv
<1> HIDE DEF new
<1>11. /\ envs' \in Seq(Env) /\ DOMAIN envs' = DOMAIN envs \cup {last} /\ last \notin DOMAIN envs
       /\ envs'[last] = place /\ \A i \in DOMAIN envs : envs'[i] = envs[i]
  BY <1>1, <1>6, Inserted DEF last
<1>12. new.user \in Users /\ new.user \in invited'[j.id]
  <2>1. new.kind = "create" /\ new.user \in Users
    BY <1>2, <1>3, <1>9 DEF Alike, Similar
  <2> QED
    BY <1>3, <1>9, <1>10, <2>1, Invited
<1>13. \A m \in 1 .. j.env : \E i \in DOMAIN envs : envs[i].of = j.id /\ envs[i].name = EnvNames[m]
  BY <1>1, <1>2 DEF Knows, EnvsOf, AppStages
<1>14. ~raced => \A i \in DOMAIN envs : envs[i].of = j.id => \E m \in 1 .. j.env : envs[i].name = EnvNames[m]
  BY <1>1 DEF RegistrationsIInv, OwnOK, Finds, EnvsOf
<1>15. \A m \in 1 .. k : \E i \in DOMAIN envs' : envs'[i].of = j.id /\ envs'[i].name = EnvNames[m]
  BY <1>5, <1>6, <1>11, <1>13
<1>16. ~raced => \A i \in DOMAIN envs' : envs'[i].of = j.id => \E m \in 1 .. k : envs'[i].name = EnvNames[m]
  BY <1>5, <1>6, <1>11, <1>14
<1>17. ~raced => \A i, m \in DOMAIN envs' :
          envs'[i].of = envs'[m].of /\ envs'[i].name = envs'[m].name /\ envs'[i].name # Preview => i = m
  <2>1. ~raced => \A i \in DOMAIN envs : ~(envs[i].of = j.id /\ envs[i].name = EnvNames[k])
    BY <1>5, <1>14, ProjectsAssumption
  <2>2. ~raced => \A i, m \in DOMAIN envs :
          envs[i].of = envs[m].of /\ envs[i].name = envs[m].name /\ envs[i].name # Preview => i = m
    BY DEF RegistrationsIInv, NoDuplicates
  <2> QED
    BY <1>6, <1>11, <2>1, <2>2
<1>18. \A i \in DOMAIN envs' : Exists(envs'[i].of)
  BY <1>3, <1>6, <1>11 DEF RegistrationsIInv, Consistent
<1>19. StageOK(new)
  BY <1>2, <1>7, <1>9 DEF Alike, Similar, StageOK
<1>20. new.kind # "none" => new.no # 0
  BY <1>1, <1>2, <1>9 DEF Alike, Similar, Knows, AppStages
<1>21. project[new.id] # NoRow
  BY <1>3, <1>9 DEF Exists
<1> HIDE DEF j
<1>22. Knows(job[r])'
  <2>1. \A m \in 1 .. k : \E i \in EnvsOf(job[r].id)' : envs'[i].name = EnvNames[m]
    BY <1>9, <1>10, <1>15 DEF EnvsOf
  <2>2. at = "owner" => DOMAIN EnvNames = 1 .. k
    BY <1>5, <1>7
  <2>3. new.kind = "create" /\ new.copy \in Row /\ new.id \in Ids
    BY <1>2, <1>3, <1>9 DEF Alike, Similar
  <2>4. job'[r].env = k /\ job'[r].at = at /\ job'[r].kind = "create" /\ job'[r].no # 0
        /\ job'[r].id \in Ids /\ job'[r].copy \in Row /\ job'[r].user \in Users
        /\ job'[r].user \in invited'[job'[r].id] /\ Exists(job[r].id)'
    BY <1>1, <1>9, <1>10, <1>12, <1>20, <1>21, <2>3 DEF Exists
  <2>5. CASE at = "env"
    <3>1. \A m \in 1 .. job'[r].env : \E i \in EnvsOf(job[r].id)' : envs'[i].name = EnvNames[m]
      BY <2>1, <2>4
    <3>2. job'[r].env < Len(EnvNames)
      BY <1>7, <2>4, <2>5
    <3> QED
      BY <2>4, <2>5, <3>1, <3>2 DEF Knows, Enlisting, Placed, RegStages, AppStages
  <2>6. CASE at = "owner"
    <3>1. \A m \in DOMAIN EnvNames : \E i \in EnvsOf(job[r].id)' : envs'[i].name = EnvNames[m]
      BY <2>1, <2>2, <2>6
    <3> QED
      BY <2>4, <2>6, <3>1 DEF Knows, Enlisting, Placed, RegStages, AppStages
  <2> QED
    BY <1>7, <2>5, <2>6
<1>23. ~raced => Finds(job[r])'
  BY <1>7, <1>9, <1>10, <1>16 DEF Finds, EnvsOf
<1>24. KnowsMembers(job[r])' /\ KnowsPlaces(job[r])' /\ KnowsRegs(job[r])'
  BY <1>2, <1>7, <1>9, <1>10 DEF Alike, Similar, KnowsMembers, KnowsPlaces, KnowsRegs, AppStages
<1>25. OwnOK(r)'
  <2>1. Carries(job[r])'
    BY <1>1, <1>7, <1>8, <1>9, <1>10, CarriesOn DEF j
  <2> QED
    BY <2>1, <1>10, <1>19, <1>22, <1>23, <1>24, History DEF OwnOK, StageOK
<1> QED
  BY <1>1, <1>2, <1>8, <1>11, <1>17, <1>18, <1>25, EnvsKeep DEF j

LEMMA InsertPreviewKeeps ==
    ASSUME RegistrationsIInv, NEW r \in Reqs, InsertPreview(r), UNCHANGED <<regs, apps>>, Observe
    PROVE  RegistrationsIInv'
<1> DEFINE j == job[r]
           last == Len(envs) + 1
           new == [j EXCEPT !.at = "answer"]
<1>1. /\ j.at = "insertPreview" /\ UNCHANGED <<project, member, started, regs, apps>>
      /\ envs' = Append(envs, j.place) /\ job' = [job EXCEPT ![r].at = "answer"]
  BY DEF InsertPreview, Go
<1>2. /\ j \in JobRow /\ StageOK(j) /\ Knows(j) /\ j.kind = "preview"
      /\ job' = [job EXCEPT ![r] = new]
  BY <1>1, StagesTell DEF RegistrationsIInv
<1>3. /\ j.id \in Ids /\ Exists(j.id) /\ j.place \in Env /\ j.place.of = j.id /\ j.place.name = Preview
  <2>1. Carries(j)
    BY DEF RegistrationsIInv, OwnOK
  <2> QED
    BY <1>1, <1>2, <2>1 DEF Knows, AppStages, Carries, PreviewPlace
<1>4. /\ envs' \in Seq(Env) /\ DOMAIN envs' = DOMAIN envs \cup {last} /\ last \notin DOMAIN envs
      /\ envs'[last] = j.place /\ \A i \in DOMAIN envs : envs'[i] = envs[i]
  BY <1>1, <1>3, Inserted
<1> HIDE DEF last
<1>5. new \in JobRow
  BY <1>2, Words DEF JobRow
<1>6. Alike(j, new) /\ new.at = "answer" /\ new.id = j.id
  BY <1>2 DEF JobRow, Alike, Similar
<1>7. job'[r] = new /\ (\A q \in Reqs \ {r} : job'[q] = job[q]) /\ job' \in [Reqs -> JobRow]
  BY <1>2, <1>5 DEF RegistrationsIInv
<1> HIDE DEF new
<1>8. ~raced => \A i, m \in DOMAIN envs' :
          envs'[i].of = envs'[m].of /\ envs'[i].name = envs'[m].name /\ envs'[i].name # Preview => i = m
  BY <1>3, <1>4 DEF RegistrationsIInv, NoDuplicates
<1>9. \A i \in DOMAIN envs' : Exists(envs'[i].of)
  BY <1>3, <1>4 DEF RegistrationsIInv, Consistent
<1>10. /\ new.no # 0 /\ project[new.id] # NoRow /\ new.gitops = ""
       /\ new.kind = "preview" /\ new.id \in Ids
  <2>1. j.gitops = ""
    BY <1>1, NotWritten
  <2>2. j.no # 0
    BY <1>2 DEF Knows
  <2> QED
    BY <1>2, <1>3, <1>6, <2>1, <2>2 DEF Alike, Similar, Exists
<1>11. j = job[r]
  OBVIOUS
<1> HIDE DEF j
<1>12. StageOK(new) /\ Finds(job[r])' /\ KnowsMembers(job[r])' /\ KnowsPlaces(job[r])' /\ KnowsRegs(job[r])'
  BY <1>6, <1>7, <1>10 DEF StageOK, Finds, KnowsMembers, KnowsPlaces, KnowsRegs, AppStages
<1>13. Knows(job[r])'
  BY <1>1, <1>6, <1>7, <1>10 DEF Knows, Enlisting, Placed, RegStages, AppStages, Exists
<1>14. OwnOK(r)'
  <2>1. Carries(job[r])'
    BY <1>1, <1>5, <1>6, <1>7, CarriesOn DEF j
  <2> QED
    BY <2>1, <1>7, <1>12, <1>13 DEF OwnOK, StageOK
<1> QED
  BY <1>1, <1>2, <1>4, <1>5, <1>8, <1>9, <1>11, <1>14, EnvsKeep

LEMMA InsertEnvKeeps ==
    ASSUME RegistrationsIInv, NEW r \in Reqs, InsertEnv(r), Observe
    PROVE  RegistrationsIInv'
<1> DEFINE j == job[r]
           last == Len(envs) + 1
           new == [j EXCEPT !.at = "findReg", !.env = last]
<1>1. /\ j.at = "insertEnv" /\ UNCHANGED <<project, member, started, regs, apps>>
      /\ envs' = Append(envs, j.place) /\ job' = [job EXCEPT ![r] = new]
  BY DEF InsertEnv, Become
<1>2. j.kind = "register"
  BY <1>1, StagesTell
<1>3. /\ j \in JobRow /\ StageOK(j) /\ Knows(j) /\ j.id \in Ids /\ j.copy \in Row /\ j.name \in EnvName
      /\ Exists(j.id) /\ j.place = Assigned(j.id, j.copy, j.name) /\ j.place \in Env
  BY <1>1, <1>2, RegisterKnows DEF Placed
<1>4. j.place.of = j.id /\ j.place.name = j.name
  BY <1>3, Assigns
<1>5. /\ envs' \in Seq(Env) /\ DOMAIN envs' = DOMAIN envs \cup {last} /\ last \notin DOMAIN envs
      /\ envs'[last] = j.place /\ (\A i \in DOMAIN envs : envs'[i] = envs[i]) /\ last \in Nat
  BY <1>1, <1>3, Inserted
<1> HIDE DEF last
<1>6. new \in JobRow
  <2>1. "findReg" \in AllStages
    BY Words
  <2> QED
    BY <1>3, <1>5, <2>1 DEF JobRow
<1>7. Alike(j, new) /\ new.at = "findReg" /\ new.id = j.id /\ new.env = last /\ new.place = j.place
  BY <1>3 DEF JobRow, Alike, Similar
<1>8. job'[r] = new /\ (\A q \in Reqs \ {r} : job'[q] = job[q]) /\ job' \in [Reqs -> JobRow]
  BY <1>1, <1>6 DEF RegistrationsIInv
<1> HIDE DEF new
<1>9. ~raced => \A i \in DOMAIN envs : ~(envs[i].of = j.id /\ envs[i].name = j.name)
  BY <1>1 DEF RegistrationsIInv, OwnOK, Finds, EnvsNamed, EnvsOf
<1>10. ~raced => \A i, m \in DOMAIN envs' :
          envs'[i].of = envs'[m].of /\ envs'[i].name = envs'[m].name /\ envs'[i].name # Preview => i = m
  <2>1. ~raced => \A i, m \in DOMAIN envs :
          envs[i].of = envs[m].of /\ envs[i].name = envs[m].name /\ envs[i].name # Preview => i = m
    BY DEF RegistrationsIInv, NoDuplicates
  <2> QED
    BY <1>4, <1>5, <1>9, <2>1
<1>11. \A i \in DOMAIN envs' : Exists(envs'[i].of)
  BY <1>3, <1>4, <1>5 DEF RegistrationsIInv, Consistent
<1>12. StageOK(new)
  BY <1>2, <1>7 DEF Alike, Similar, StageOK, Placed, RegStages, AppStages
<1>13. new.no # 0 /\ new.name \in {EnvNames[i] : i \in DOMAIN EnvNames}
       /\ (new.asked # None => new.copy.repo = new.asked)
  BY <1>2, <1>3, <1>7 DEF Alike, Similar, Knows, AppStages
<1>14. project[new.id] # NoRow
  BY <1>3, <1>7 DEF Exists
<1>15. r \in lone => KnowsRegs(j)
  BY DEF RegistrationsIInv, OwnOK
<1>16. r \in lone => project[j.id] = j.copy
  BY <1>1, <1>2, <1>15 DEF KnowsRegs, AppStages
<1>17. job[r].at # "idle" /\ j = job[r]
  BY <1>1
<1> HIDE DEF j
<1>18. Knows(job[r])'
  BY <1>1, <1>2, <1>3, <1>4, <1>5, <1>7, <1>8, <1>13, <1>14, SMTT(60)
     DEF Alike, Similar, Knows, Enlisting, Placed, RegStages, AppStages, Exists, EnvsOf, EnvsNamed, Assigned
<1>19. Finds(job[r])'
  BY <1>7, <1>8 DEF Finds
<1>20. r \in lone => KnowsMembers(job[r])' /\ KnowsPlaces(job[r])' /\ KnowsRegs(job[r])'
  BY <1>1, <1>2, <1>5, <1>7, <1>8, <1>16 DEF Alike, Similar, KnowsMembers, KnowsPlaces, KnowsRegs, AppStages
<1>21. OwnOK(r)'
  <2>1. Carries(job[r])'
    BY <1>1, <1>6, <1>7, <1>8, CarriesOn DEF j
  <2> QED
    BY <2>1, <1>8, <1>12, <1>17, <1>18, <1>19, <1>20, History DEF OwnOK, StageOK
<1> QED
  BY <1>1, <1>2, <1>5, <1>6, <1>10, <1>11, <1>21, EnvsKeep DEF j

\* save leaves an environment where it belongs, and is what the handler holds when nobody changed the row.
LEMMA SavedEnv ==
    ASSUME NEW row \in Env, NEW was \in Env, NEW place \in Env,
           place.of = row.of, was.of = row.of, place.name = row.name, was.name = row.name
    PROVE  LET saved == Saved(row, was, place) IN
           /\ saved \in Env /\ saved.of = row.of /\ saved.name = row.name
           /\ was = row => saved = place
BY DEF Env, Saved

LEMMA UpdateEnvKeeps ==
    ASSUME RegistrationsIInv, NEW r \in Reqs, MoveEnv(r) \/ ForceEnv(r), UNCHANGED <<regs, apps>>, Observe
    PROVE  RegistrationsIInv'
<1> DEFINE j == job[r]
           saved == Saved(envs[j.env], j.was, j.place)
           next == IF j.kind = "put" THEN "next" ELSE "findReg"
           new == [j EXCEPT !.at = next]
<1>1. /\ j.at = "updateEnv" /\ UNCHANGED <<project, member, started, regs, apps>>
      /\ envs' = [envs EXCEPT ![j.env] = saved] /\ Go(r, next) /\ j.kind \in {"put", "register"}
  BY DEF MoveEnv, ForceEnv, UpdateEnv
<1>2. j \in JobRow /\ StageOK(j) /\ Knows(j) /\ job' = [job EXCEPT ![r] = new]
  BY <1>1, StagesTell DEF Go, RegistrationsIInv
<1>3. /\ j.env \in EnvsOf(j.id) /\ j.place \in Env /\ j.was \in Env /\ j.place.of = j.id /\ j.was.of = j.id
      /\ j.place.name = envs[j.env].name /\ j.was.name = envs[j.env].name /\ j.id \in Ids /\ Exists(j.id)
      /\ j.copy \in Row
  BY <1>1, <1>2 DEF Knows, AppStages
<1>4. j.env \in DOMAIN envs /\ envs[j.env].of = j.id /\ envs[j.env] \in Env
  BY <1>3, Typed DEF EnvsOf
<1>5. saved \in Env /\ saved.of = j.id /\ saved.name = envs[j.env].name /\ (j.was = envs[j.env] => saved = j.place)
  BY <1>3, <1>4, SavedEnv
<1>6. next \in {"next", "findReg"} /\ (next = "next" <=> j.kind = "put")
  OBVIOUS
<1> HIDE DEF saved, next
<1>7. /\ envs' \in Seq(Env) /\ DOMAIN envs' = DOMAIN envs /\ envs'[j.env] = saved
      /\ \A i \in DOMAIN envs : i # j.env => envs'[i] = envs[i]
  <2>1. envs \in Seq(Env)
    BY Typed DEF RowsOK
  <2> QED
    BY <1>1, <1>4, <1>5, <2>1
<1>8. \A i \in DOMAIN envs : envs'[i].of = envs[i].of /\ envs'[i].name = envs[i].name
  BY <1>4, <1>5, <1>7
<1>9. new \in JobRow
  <2>1. next \in AllStages
    BY <1>6, Words
  <2> QED
    BY <1>2, <2>1 DEF JobRow
<1>10. /\ Alike(j, new) /\ new.at = next /\ new.id = j.id /\ new.env = j.env /\ new.place = j.place
       /\ new.todo = j.todo
  BY <1>2 DEF JobRow, Alike, Similar
<1>11. job'[r] = new /\ (\A q \in Reqs \ {r} : job'[q] = job[q]) /\ job' \in [Reqs -> JobRow]
  BY <1>2, <1>9 DEF RegistrationsIInv
<1> HIDE DEF new
<1>12. ~raced => \A i, k \in DOMAIN envs' :
                    envs'[i].of = envs'[k].of /\ envs'[i].name = envs'[k].name /\ envs'[i].name # Preview => i = k
  BY <1>7, <1>8 DEF RegistrationsIInv, NoDuplicates
<1>13. \A i \in DOMAIN envs' : Exists(envs'[i].of)
  BY <1>7, <1>8 DEF RegistrationsIInv, Consistent
<1>14. StageOK(new)
  BY <1>1, <1>6, <1>10 DEF Alike, Similar, StageOK, Placed, RegStages, AppStages
<1>15. j.kind = "register" =>
         /\ new.name \in {EnvNames[i] : i \in DOMAIN EnvNames}
         /\ new.asked # None => new.copy.repo = new.asked
         /\ j.place = Assigned(j.id, j.copy, j.name) /\ j.env \in EnvsNamed(j)
  BY <1>1, <1>2, <1>10 DEF Alike, Similar, Knows, Placed, AppStages
<1>16. project[new.id] # NoRow /\ new.no # 0 /\ (j.kind = "put" => j.todo \subseteq EnvsOf(j.id))
  BY <1>1, <1>2, <1>3, <1>10 DEF Alike, Similar, Knows, Exists, AppStages
<1>17. r \in lone => KnowsPlaces(j) /\ KnowsRegs(j)
  BY DEF RegistrationsIInv, OwnOK
<1>18. r \in lone => envs'[j.env] = j.place /\ j.place = Assigned(j.id, j.copy, envs'[j.env].name)
  BY <1>1, <1>4, <1>5, <1>7, <1>8, <1>17 DEF KnowsPlaces
<1>19. EnvsOf(j.id) = {i \in DOMAIN envs' : envs'[i].of = j.id}
  BY <1>7, <1>8 DEF EnvsOf
<1>20. EnvsNamed(j) = {i \in {m \in DOMAIN envs' : envs'[m].of = j.id} : envs'[i].name = j.name}
  BY <1>8, <1>19 DEF EnvsNamed, EnvsOf
<1>21. j = job[r] /\ job[r].at # "idle"
  BY <1>1
<1> HIDE DEF j
<1>22. Knows(job[r])'
  BY <1>1, <1>3, <1>6, <1>10, <1>11, <1>15, <1>16, <1>19, <1>20
     DEF Alike, Similar, Knows, Enlisting, Placed, RegStages, AppStages, Exists, EnvsOf, EnvsNamed
<1>23. Finds(job[r])'
  BY <1>6, <1>10, <1>11 DEF Finds
<1>24. r \in lone => KnowsMembers(job[r])' /\ KnowsPlaces(job[r])' /\ KnowsRegs(job[r])'
  <2> SUFFICES ASSUME r \in lone PROVE KnowsMembers(job[r])' /\ KnowsPlaces(job[r])' /\ KnowsRegs(job[r])'
    OBVIOUS
  <2>1. KnowsMembers(job[r])'
    BY <1>1, <1>6, <1>10, <1>11 DEF Alike, Similar, KnowsMembers
  <2>2. KnowsPlaces(job[r])'
    <3>1. ASSUME j.kind = "put", NEW i \in EnvsOf(j.id) \ j.todo
          PROVE  envs'[i] = Assigned(j.id, j.copy, envs'[i].name)
      <4>1. i \in DOMAIN envs
        BY DEF EnvsOf
      <4>2. CASE i = j.env
        BY <4>2, <1>18
      <4>3. CASE i # j.env
        BY <1>1, <1>7, <1>17, <3>1, <4>1, <4>3 DEF KnowsPlaces
      <4> QED
        BY <4>2, <4>3
    <3>2. j.kind = "put" => j.moved /\ j.copy.domain # None /\ project[j.id] = j.copy
      BY <1>1, <1>17 DEF KnowsPlaces
    <3> QED
      BY <1>1, <1>6, <1>10, <1>11, <1>19, <3>1, <3>2 DEF Alike, Similar, KnowsPlaces, EnvsOf
  <2>3. KnowsRegs(job[r])'
    <3>1. j.kind = "register" => project[j.id] = j.copy
      BY <1>1, <1>17 DEF KnowsRegs, AppStages
    <3> QED
      BY <1>1, <1>6, <1>10, <1>11, <1>18, <3>1 DEF Alike, Similar, KnowsRegs, AppStages
  <2> QED
    BY <2>1, <2>2, <2>3
<1>25. OwnOK(r)'
  <2>1. Carries(job[r])'
    BY <1>1, <1>6, <1>9, <1>10, <1>11, CarriesOn DEF j
  <2> QED
    BY <2>1, <1>11, <1>14, <1>21, <1>22, <1>23, <1>24, History DEF OwnOK, StageOK
<1> QED
  BY <1>1, <1>2, <1>7, <1>8, <1>9, <1>12, <1>13, <1>21, <1>25, EnvsKeep DEF j

-----------------------------------------------------------------------------
(* Steps that write registrations and Applications *)

LEMMA InsertRegKeeps ==
    ASSUME RegistrationsIInv, NEW r \in Reqs, InsertReg(r), Observe
    PROVE  RegistrationsIInv'
<1> DEFINE j == job[r]
           last == Len(regs) + 1
           row == [of |-> j.id, env |-> j.env, status |-> "online"]
<1>0. PICK at \in AfterReg(j) : Become(r, [j EXCEPT !.at = at, !.reg = last])
  BY DEF InsertReg
<1> DEFINE new == [j EXCEPT !.at = at, !.reg = last]
<1>1. /\ j.at = "insertReg" /\ UNCHANGED <<project, envs, member, started, apps>>
      /\ regs' = Append(regs, row) /\ job' = [job EXCEPT ![r] = new]
  BY <1>0 DEF InsertReg, Become, portal
<1>2. j.kind = "register"
  BY <1>1, StagesTell
<1>3. /\ j \in JobRow /\ StageOK(j) /\ Knows(j) /\ j.id \in Ids /\ j.copy \in Row /\ Exists(j.id)
      /\ j.env \in DOMAIN envs /\ envs[j.env].of = j.id
  BY <1>1, <1>2, RegisterKnows DEF Placed, RegStages, AppStages
<1>4. at \in {"getApp", "answer"} /\ (at = "getApp" => j.copy.repo # None)
  BY <1>2 DEF AfterReg
<1>5. row \in Reg /\ row.of = j.id /\ row.env = j.env /\ row.status = "online"
  BY <1>3, Typed DEF Reg
<1>6. regs \in Seq(Reg)
  BY Typed DEF RowsOK
<1> HIDE DEF row
<1>7. /\ regs' \in Seq(Reg) /\ DOMAIN regs' = DOMAIN regs \cup {last} /\ last \notin DOMAIN regs
      /\ regs'[last] = row /\ (\A i \in DOMAIN regs : regs'[i] = regs[i]) /\ last \in Nat
  BY <1>1, <1>5, <1>6
<1> HIDE DEF last
<1>8. new \in JobRow
  <2>1. at \in AllStages
    BY <1>4, Words DEF AppStages
  <2> QED
    BY <1>3, <1>7, <2>1 DEF JobRow
<1>9. /\ Alike(j, new) /\ new.at = at /\ new.id = j.id /\ new.env = j.env /\ new.place = j.place
      /\ new.reg = last
  BY <1>3 DEF JobRow, Alike, Similar
<1>10. job'[r] = new /\ (\A q \in Reqs \ {r} : job'[q] = job[q]) /\ job' \in [Reqs -> JobRow]
  BY <1>1, <1>8 DEF RegistrationsIInv
<1> HIDE DEF new
<1>11. Consistent'
  BY <1>1, <1>3, <1>5, <1>7 DEF RegistrationsIInv, Consistent, Exists
<1>12. ~raced => \A i \in DOMAIN regs : regs[i].env # j.env
  <2> SUFFICES ASSUME ~raced, NEW i \in DOMAIN regs, regs[i].env = j.env PROVE FALSE
    OBVIOUS
  <2>1. regs[i].of = j.id
    BY <1>3 DEF RegistrationsIInv, Consistent
  <2>2. i \in RegsAt(j)
    BY <2>1 DEF RegsAt
  <2> QED
    BY <1>1, <2>2 DEF RegistrationsIInv, OwnOK, Finds
<1>13. NoDuplicates'
  <2>1. ~raced' => ~raced
    BY <1>10, History
  <2> QED
    BY <1>1, <1>5, <1>7, <1>12, <2>1 DEF RegistrationsIInv, NoDuplicates
<1>14. RowsOK'
  BY <1>1, <1>7, Typed DEF RowsOK
<1>15. Grows
  BY <1>1, <1>7 DEF Grows, Exists
<1>16. Joins(r)
  BY <1>1 DEF Joins
<1>17. Frame(r)
  BY <1>1, <1>2, <1>10 DEF Frame, Touches
<1>18. StageOK(new)
  BY <1>2, <1>4, <1>9 DEF Alike, Similar, StageOK, Placed, RegStages, AppStages
<1>19. r \in lone => KnowsRegs(j)
  BY DEF RegistrationsIInv, OwnOK
<1>20. r \in lone => project[j.id] = j.copy /\ envs[j.env] = j.place
  BY <1>1, <1>2, <1>19 DEF KnowsRegs, RegStages, AppStages
<1>21. job[r].at # "idle"
  BY <1>1
<1>22. /\ new.name \in {EnvNames[k] : k \in DOMAIN EnvNames} /\ (new.asked # None => new.copy.repo = new.asked)
       /\ j.env \in EnvsNamed(j) /\ new.no # 0 /\ j.place = Assigned(j.id, j.copy, j.name)
  BY <1>1, <1>2, <1>3, <1>9 DEF Alike, Similar, Knows, Placed, RegStages, AppStages
<1> HIDE DEF j
<1>23. Knows(job[r])'
  <2>1. last \in RegsAt(job[r])'
    BY <1>5, <1>7, <1>9, <1>10 DEF RegsAt
  <2>2. job'[r].env \in EnvsNamed(job[r])' /\ job'[r].place = Assigned(job'[r].id, job'[r].copy, job'[r].name)
    BY <1>1, <1>9, <1>10, <1>22 DEF Alike, Similar, EnvsNamed, EnvsOf
  <2>3. Exists(job[r].id)'
    BY <1>1, <1>3, <1>9, <1>10 DEF Exists
  <2> QED
    BY <1>2, <1>3, <1>4, <1>9, <1>10, <1>22, <2>1, <2>2, <2>3 DEF Alike, Similar, Knows, Enlisting, Placed, RegStages, AppStages
<1>24. Finds(job[r])'
  BY <1>4, <1>9, <1>10 DEF Finds
<1>25. r \in lone => KnowsMembers(job[r])' /\ KnowsPlaces(job[r])' /\ KnowsRegs(job[r])'
  <2>1. new.gitops = ""
    BY <1>1, <1>9, NotWritten DEF Alike, j
  <2> QED
    BY <2>1, <1>1, <1>2, <1>4, <1>5, <1>7, <1>9, <1>10, <1>20 DEF Alike, Similar, KnowsMembers, KnowsPlaces, KnowsRegs, AppStages
<1>26. OwnOK(r)'
  <2>1. Carries(job[r])'
    BY <1>1, <1>4, <1>8, <1>9, <1>10, CarriesOn DEF j
  <2> QED
    BY <2>1, <1>10, <1>18, <1>21, <1>23, <1>24, <1>25, History DEF OwnOK, StageOK
<1> QED
  BY <1>10, <1>11, <1>13, <1>14, <1>15, <1>16, <1>17, <1>26, StepKeeps

LEMMA UpdateRegKeeps ==
    ASSUME RegistrationsIInv, NEW r \in Reqs, UpdateReg(r), Observe
    PROVE  RegistrationsIInv'
<1> DEFINE j == job[r]
           to == IF j.kind = "deregister" THEN "offline" ELSE "online"
           status == IF j.status = to THEN regs[j.reg].status ELSE to
           row == [regs[j.reg] EXCEPT !.status = status]
<1>0. PICK at \in AfterReg(j) : Go(r, at)
  BY DEF UpdateReg
<1> DEFINE new == [j EXCEPT !.at = at]
<1>1. j.at = "updateReg" /\ UNCHANGED <<project, envs, member, started, apps>> /\ Go(r, at)
  BY <1>0 DEF UpdateReg, portal
<1>2. j \in JobRow /\ StageOK(j) /\ Knows(j) /\ j.kind \in {"register", "deregister", "beat"}
  BY <1>1, StagesTell
<1>3. j.reg \in DOMAIN regs /\ job' = [job EXCEPT ![r] = new]
  BY <1>1, <1>2 DEF Knows, Go, RegistrationsIInv, AppStages
<1>4. regs[j.reg] \in Reg /\ regs \in Seq(Reg)
  BY <1>3, Typed DEF RowsOK
<1>5. /\ status \in {"online", "offline"}
      /\ j.kind # "deregister" => status \in {regs[j.reg].status, "online"}
      /\ j.kind = "register" /\ (j.status = "online" => regs[j.reg].status = "online") => status = "online"
  BY <1>4 DEF Reg
<1>6. /\ at \in {"getApp", "answer"} /\ (at = "getApp" => j.kind = "register" /\ j.copy.repo # None)
  BY DEF AfterReg
<1>7. regs' = [regs EXCEPT ![j.reg] = row]
  BY <1>3, <1>4 DEF UpdateReg
<1> HIDE DEF status
<1>8. row \in Reg /\ row.of = regs[j.reg].of /\ row.env = regs[j.reg].env /\ row.status = status
  BY <1>4, <1>5 DEF Reg
<1> HIDE DEF row
<1>9. /\ regs' \in Seq(Reg) /\ DOMAIN regs' = DOMAIN regs /\ regs'[j.reg] = row
      /\ \A i \in DOMAIN regs : i # j.reg => regs'[i] = regs[i]
  BY <1>3, <1>4, <1>7, <1>8
<1>10. \A i \in DOMAIN regs : regs'[i].of = regs[i].of /\ regs'[i].env = regs[i].env
  BY <1>8, <1>9
<1>11. new \in JobRow
  <2>1. at \in AllStages
    BY <1>6, Words DEF AppStages
  <2> QED
    BY <1>2, <2>1 DEF JobRow
<1>12. /\ Alike(j, new) /\ new.at = at /\ new.id = j.id /\ new.env = j.env /\ new.place = j.place
       /\ new.reg = j.reg
  BY <1>2 DEF JobRow, Alike, Similar
<1>13. job'[r] = new /\ (\A q \in Reqs \ {r} : job'[q] = job[q]) /\ job' \in [Reqs -> JobRow]
  BY <1>3, <1>11 DEF RegistrationsIInv
<1> HIDE DEF new
<1>14. Grows
  BY <1>1, <1>9, <1>10 DEF Grows, Exists
<1>15. Consistent' /\ NoDuplicates'
  BY <1>1, <1>9, <1>13, <1>14, History, SameRows
<1>16. RowsOK'
  BY <1>1, <1>9, Typed DEF RowsOK
<1>17. Joins(r)
  BY <1>1 DEF Joins
<1>18. Frame(r)
  <2>1. "registrations" \notin Touches(j.kind) => \A i \in DOMAIN regs : regs'[i].status \in {regs[i].status, "online"}
    BY <1>2, <1>5, <1>8, <1>9 DEF Touches
  <2> QED
    BY <1>1, <1>9, <1>13, <2>1 DEF Frame
<1>19. StageOK(new)
  BY <1>2, <1>6, <1>12 DEF Alike, Similar, StageOK, Placed, RegStages, AppStages
<1>20. r \in lone => KnowsRegs(j)
  BY DEF RegistrationsIInv, OwnOK
<1>21. r \in lone /\ j.kind = "register" =>
         project[j.id] = j.copy /\ envs[j.env] = j.place /\ status = "online"
  BY <1>1, <1>5, <1>20 DEF KnowsRegs, RegStages, AppStages
<1>22. /\ j.kind = "register" =>
            /\ new.name \in {EnvNames[k] : k \in DOMAIN EnvNames} /\ (new.asked # None => new.copy.repo = new.asked)
            /\ j.env \in EnvsNamed(j) /\ j.place = Assigned(j.id, j.copy, j.name) /\ j.reg \in RegsAt(j)
            /\ j.copy \in Row /\ Exists(j.id)
       /\ new.no # 0 /\ j.id \in Ids
  BY <1>1, <1>2, <1>12 DEF Alike, Similar, Knows, Placed, RegStages, AppStages
<1>23. job[r].at # "idle"
  BY <1>1
<1> HIDE DEF j
<1>24. Knows(job[r])'
  <2>1. j.kind = "register" => job'[r].reg \in RegsAt(job[r])'
    BY <1>9, <1>10, <1>12, <1>13, <1>22 DEF RegsAt
  <2>2. j.kind = "register" =>
          job'[r].env \in EnvsNamed(job[r])' /\ job'[r].place = Assigned(job'[r].id, job'[r].copy, job'[r].name)
    BY <1>1, <1>12, <1>13, <1>22 DEF Alike, Similar, EnvsNamed, EnvsOf
  <2>3. j.kind = "register" => Exists(job[r].id)' /\ job'[r].copy \in Row
    BY <1>1, <1>12, <1>13, <1>22 DEF Alike, Similar, Exists
  <2> QED
    BY <1>2, <1>6, <1>12, <1>13, <1>22, <2>1, <2>2, <2>3 DEF Alike, Similar, Knows, Enlisting, Placed, RegStages, AppStages
<1>25. Finds(job[r])'
  BY <1>6, <1>12, <1>13 DEF Finds
<1>26. r \in lone => KnowsMembers(job[r])' /\ KnowsPlaces(job[r])' /\ KnowsRegs(job[r])'
  <2>1. new.gitops = ""
    BY <1>1, <1>12, NotWritten DEF Alike, j
  <2> QED
    BY <2>1, <1>1, <1>2, <1>6, <1>8, <1>9, <1>12, <1>13, <1>21 DEF Alike, Similar, KnowsMembers, KnowsPlaces, KnowsRegs, AppStages
<1>27. OwnOK(r)'
  <2>1. Carries(job[r])'
    BY <1>1, <1>6, <1>11, <1>12, <1>13, CarriesOn DEF j
  <2> QED
    BY <2>1, <1>13, <1>19, <1>23, <1>24, <1>25, <1>26, History DEF OwnOK, StageOK
<1> QED
  BY <1>13, <1>14, <1>15, <1>16, <1>17, <1>18, <1>27, StepKeeps

LEMMA DeploysKeeps ==
    ASSUME RegistrationsIInv, NEW r \in Reqs, job[r].at \in AppStages, Deploys(r), Observe,
           UNCHANGED <<project, envs, member, started, regs>>
    PROVE  RegistrationsIInv'
<1> DEFINE j == job[r]
           p == PlaceOf(j)
           row == [repo |-> j.copy.repo, version |-> j.no]
           new == [j EXCEPT !.at = "answer", !.gitops = "written"]
<1>1. /\ j.at \in AppStages /\ UNCHANGED <<project, envs, member, started, regs>>
      /\ apps' = [apps EXCEPT ![p] = row] /\ job' = [job EXCEPT ![r] = new]
  BY DEF Deploys, Become
<1>2. j.kind = "register"
  BY StagesTell
<1>3. /\ j \in JobRow /\ StageOK(j) /\ Knows(j) /\ j.id \in Ids /\ j.copy \in Row /\ Exists(j.id) /\ p \in Places
      /\ j.copy.repo # None
  BY <1>1, <1>2, RegisterKnows DEF Placed, RegStages, AppStages, Knows
<1>4. row \in [repo : Repos \cup {None}, version : 0 .. MaxRequests + 1] /\ row.repo = j.copy.repo
  BY <1>3 DEF JobRow, Row
<1>5. p = PlaceOf(j)
  OBVIOUS
<1> HIDE DEF row, p
<1>6. /\ apps' \in [Places -> [repo : Repos \cup {None}, version : 0 .. MaxRequests + 1]] /\ apps'[p] = row
  BY <1>1, <1>3, <1>4, Typed DEF RowsOK
<1>7. new \in JobRow
  <2>1. "answer" \in AllStages
    BY Words
  <2> QED
    BY <1>3, <2>1 DEF JobRow
<1>8. /\ Similar(j, new) /\ new.at = "answer" /\ new.id = j.id /\ new.env = j.env /\ new.place = j.place
      /\ new.reg = j.reg /\ new.gitops = "written"
  BY <1>3 DEF JobRow, Similar
<1>9. job'[r] = new /\ (\A q \in Reqs \ {r} : job'[q] = job[q]) /\ job' \in [Reqs -> JobRow]
  BY <1>1, <1>7 DEF RegistrationsIInv
<1> HIDE DEF new
<1>10. RowsOK'
  BY <1>1, <1>6, Typed DEF RowsOK
<1>11. Grows
  BY <1>1 DEF Grows, Exists
<1>12. Consistent' /\ NoDuplicates'
  BY <1>1, <1>9, <1>11, History, SameRows
<1>13. Joins(r)
  BY <1>1 DEF Joins, AppStages
<1>14. Frame(r)
  BY <1>1, <1>2, <1>9 DEF Frame, Touches
<1>15. StageOK(new)
  BY <1>2, <1>8 DEF Similar, StageOK, Placed
<1>16. r \in lone => KnowsRegs(j)
  BY DEF RegistrationsIInv, OwnOK
<1>17. r \in lone => /\ project[j.id] = j.copy /\ envs[j.env] = j.place /\ regs[j.reg].status = "online"
                     /\ row.repo = j.copy.repo
  BY <1>1, <1>2, <1>4, <1>5, <1>16 DEF KnowsRegs, RegStages, AppStages
<1>18. /\ new.name \in {EnvNames[k] : k \in DOMAIN EnvNames} /\ (new.asked # None => new.copy.repo = new.asked)
       /\ j.env \in EnvsNamed(j) /\ j.place = Assigned(j.id, j.copy, j.name) /\ j.reg \in RegsAt(j)
       /\ new.no # 0
  BY <1>1, <1>2, <1>3, <1>8 DEF Similar, Knows, Placed, RegStages, AppStages
<1>19. job[r].at # "idle"
  BY <1>1 DEF AppStages
<1> HIDE DEF j
<1>20. Knows(job[r])'
  <2>1. job'[r].reg \in RegsAt(job[r])'
    BY <1>1, <1>8, <1>9, <1>18 DEF RegsAt
  <2>2. job'[r].env \in EnvsNamed(job[r])' /\ job'[r].place = Assigned(job'[r].id, job'[r].copy, job'[r].name)
    BY <1>1, <1>8, <1>9, <1>18 DEF Similar, EnvsNamed, EnvsOf
  <2>3. Exists(job[r].id)'
    BY <1>1, <1>3, <1>8, <1>9 DEF Exists
  <2> QED
    BY <1>2, <1>3, <1>8, <1>9, <1>18, <2>1, <2>2, <2>3 DEF Similar, Knows, Enlisting, Placed, RegStages, AppStages
<1>21. Finds(job[r])'
  BY <1>8, <1>9 DEF Finds
<1>22. r \in lone => KnowsMembers(job[r])' /\ KnowsPlaces(job[r])' /\ KnowsRegs(job[r])'
  <2>1. PlaceOf(job[r])' = p
    BY <1>5, <1>8, <1>9 DEF Similar, PlaceOf
  <2> QED
    BY <1>1, <1>2, <1>6, <1>8, <1>9, <1>17, <2>1 DEF Similar, KnowsMembers, KnowsPlaces, KnowsRegs, AppStages
<1>23. OwnOK(r)'
  <2>1. Carries(job[r])'
    BY <1>2, <1>3, <1>8, <1>9 DEF Similar, Carries
  <2> QED
    BY <2>1, <1>9, <1>15, <1>19, <1>20, <1>21, <1>22, History DEF OwnOK, StageOK
<1> QED
  BY <1>9, <1>10, <1>11, <1>12, <1>13, <1>14, <1>23, StepKeeps

LEMMA PutAppKeeps ==
    ASSUME RegistrationsIInv, NEW r \in Reqs, ReplaceApp(r) \/ CreateApp(r), Observe
    PROVE  RegistrationsIInv'
<1>1. job[r].at \in AppStages /\ UNCHANGED <<project, envs, member, started, regs>>
  BY DEF ReplaceApp, CreateApp, portal, AppStages
<1>2. CASE Deploys(r)
  BY <1>1, <1>2, DeploysKeeps
<1>3. ASSUME NEW at \in {"createApp", "answer"}, Go(r, at), UNCHANGED apps PROVE RegistrationsIInv'
  BY <1>1, <1>3, GoesOn
<1> QED
  BY <1>2, <1>3 DEF ReplaceApp, CreateApp

-----------------------------------------------------------------------------
(* Steps that write the rows of members *)

\* A step that answers its request and by which only the membership it is about changes.
LEMMA MemberKeeps ==
    ASSUME RegistrationsIInv, NEW r \in Reqs, job[r].at \in Enlisting \cup {"remove"},
           UNCHANGED <<project, envs, started, regs, apps>>, Observe,
           NEW row \in Member, member' = [member EXCEPT ![job[r].id][job[r].user] = row],
           Go(r, "answer"),
           job[r].at = "remove" => row.gen = 0 \/ (row = member[job[r].id][job[r].user] /\ r \notin lone),
           r \in lone /\ job[r].kind = "create" => row.gen # 0 /\ row.role = "owner"
    PROVE  RegistrationsIInv'
<1> DEFINE j == job[r]
           new == [j EXCEPT !.at = "answer"]
<1>1. /\ j \in JobRow /\ StageOK(j) /\ Knows(j) /\ j.at # "idle" /\ j.at # "insert"
      /\ j.kind \in {"create", "grant", "role", "revoke"} /\ (j.at = "remove" <=> j.kind = "revoke")
  BY StagesTell DEF Enlisting
<1>2. j.id \in Ids /\ j.user \in Users
  BY <1>1 DEF Knows, AppStages
<1>3. /\ member' \in [Ids -> [Users -> Member]] /\ member'[j.id][j.user] = row
      /\ \A id \in Ids, u \in Users : id # j.id \/ u # j.user => member'[id][u] = member[id][u]
  BY <1>2, Typed DEF RowsOK
<1>4. new \in JobRow /\ job' = [job EXCEPT ![r] = new]
  <2>1. "answer" \in AllStages
    BY Words
  <2>2. new \in JobRow
    BY <1>1, <2>1 DEF JobRow
  <2> QED
    BY <2>2 DEF Go, RegistrationsIInv
<1>5. Alike(j, new) /\ new.at = "answer" /\ new.id = j.id
  BY <1>1 DEF JobRow, Alike, Similar
<1>6. job'[r] = new /\ (\A q \in Reqs \ {r} : job'[q] = job[q]) /\ job' \in [Reqs -> JobRow]
  BY <1>4 DEF RegistrationsIInv
<1> HIDE DEF new
<1>7. RowsOK'
  BY <1>3, Typed DEF RowsOK
<1>8. Grows
  BY DEF Grows, Exists
<1>9. Consistent' /\ NoDuplicates'
  BY <1>6, <1>8, History, SameRows
<1>10. Frame(r)
  <2>1. "members" \in Touches(j.kind)
    BY <1>1 DEF Touches
  <2> QED
    BY <1>6, <2>1 DEF Frame
<1>11. Joins(r)
  <2>1. ASSUME NEW id \in Ids, NEW u \in Users, member'[id][u].gen # 0
        PROVE  member[id][u].gen # 0 \/ (j.at \in Enlisting /\ id = j.id /\ u = j.user)
    <3>1. CASE id # j.id \/ u # j.user
      BY <1>3, <2>1, <3>1
    <3>2. CASE id = j.id /\ u = j.user
      BY <1>3, <2>1, <3>2
    <3> QED
      BY <3>1, <3>2
  <2>2. r \in lone /\ j.at = "remove" => member'[j.id][j.user].gen = 0
    BY <1>3
  <2> QED
    BY <2>1, <2>2 DEF Joins
<1>12. StageOK(new)
  BY <1>1, <1>5 DEF Alike, Similar, StageOK, Enlisting
<1>13. new.kind = "create" => new.user \in invited'[new.id]
  <2>1. new.kind = "grant" => new.user \in Users
    BY <1>2, <1>5 DEF Alike, Similar
  <2>2. new.kind = "create" => new.user \in Users
    BY <1>2, <1>5 DEF Alike, Similar
  <2> QED
    BY <1>2, <1>5, <1>6, <2>1, <2>2, Invited
<1>14. new.kind = "create" =>
          /\ \A k \in DOMAIN EnvNames : \E i \in EnvsOf(j.id) : envs[i].name = EnvNames[k]
          /\ new.copy \in Row /\ Exists(j.id)
  BY <1>1, <1>5 DEF Alike, Similar, Knows, Enlisting, AppStages
<1>15. new.no # 0 /\ new.user \in Users
  BY <1>1, <1>2, <1>5 DEF Alike, Similar, Knows, AppStages
<1>16. job[r].at # "idle"
  BY <1>1
<1> HIDE DEF j
<1>17. Knows(job[r])'
  <2>1. new.kind = "create" => \A k \in DOMAIN EnvNames : \E i \in EnvsOf(job[r].id)' : envs'[i].name = EnvNames[k]
    BY <1>5, <1>6, <1>14 DEF EnvsOf
  <2>2. new.kind = "create" => Exists(job[r].id)'
    BY <1>5, <1>6, <1>14 DEF Exists
  <2>3. new.kind \in {"create", "grant", "role", "revoke"} /\ new.id \in Ids
    BY <1>1, <1>2, <1>5 DEF Alike, Similar
  <2> QED
    BY <1>5, <1>6, <1>13, <1>14, <1>15, <2>1, <2>2, <2>3 DEF Knows, Enlisting, Placed, RegStages, AppStages
<1>18. Finds(job[r])'
  BY <1>5, <1>6 DEF Finds
<1>19. r \in lone => KnowsMembers(job[r])' /\ KnowsPlaces(job[r])' /\ KnowsRegs(job[r])'
  <2>1. r \in lone => KnowsMembers(job[r])'
    <3>1. r \in lone /\ new.kind = "create" => job'[r].user \in Owners(job[r].id)'
      <4>1. job'[r].user = j.user /\ job'[r].id = j.id /\ (new.kind = "create" => j.kind = "create")
        BY <1>5, <1>6 DEF Alike, Similar
      <4> QED
        BY <1>2, <1>3, <4>1 DEF Owners, j
    <3> QED
      BY <1>5, <1>6, <3>1 DEF KnowsMembers
  <2> QED
    BY <1>1, <1>5, <1>6, <2>1 DEF Alike, Similar, KnowsPlaces, KnowsRegs, AppStages
<1>20. OwnOK(r)'
  <2>1. Carries(job[r])'
    BY <1>1, <1>4, <1>5, <1>6, CarriesOn DEF j, Enlisting
  <2> QED
    BY <2>1, <1>6, <1>12, <1>16, <1>17, <1>18, <1>19, History DEF OwnOK, StageOK
<1> QED
  BY <1>6, <1>7, <1>8, <1>9, <1>10, <1>11, <1>20, StepKeeps

\* What the steps that write a membership have at hand.
LEMMA MemberAtHand ==
    ASSUME RegistrationsIInv, NEW r \in Reqs, job[r].at \in Enlisting \cup {"count", "remove"}
    PROVE  LET j == job[r] IN
           /\ j.id \in Ids /\ j.user \in Users /\ j.held \in Member /\ j.found \in Member
           /\ j.no \in 0 .. MaxRequests + 1 /\ j.no # 0
           /\ member[j.id][j.user] \in Member /\ member \in [Ids -> [Users -> Member]]
           /\ j.kind = "create" /\ j.at \in Enlisting => j.held.role = "owner"
           /\ r \in lone => KnowsMembers(j)
<1>1. /\ job[r] \in JobRow /\ StageOK(job[r]) /\ Knows(job[r])
      /\ job[r].kind \in {"create", "grant", "role", "revoke"} /\ job[r].at # "insert"
  BY StagesTell DEF Enlisting
<1>2. job[r].id \in Ids /\ job[r].user \in Users /\ job[r].no # 0
  BY <1>1 DEF Knows, AppStages
<1>3. job[r].kind = "create" /\ job[r].at \in Enlisting => job[r].held.role = "owner"
  BY <1>1 DEF Knows, AppStages
<1>4. job[r].held \in Member /\ job[r].found \in Member /\ job[r].no \in 0 .. MaxRequests + 1
  BY <1>1 DEF JobRow
<1>5. member \in [Ids -> [Users -> Member]] /\ member[job[r].id][job[r].user] \in Member
  BY <1>2, Typed DEF RowsOK
<1> QED
  BY <1>2, <1>3, <1>4, <1>5 DEF RegistrationsIInv, OwnOK

LEMMA EnlistKeeps ==
    ASSUME RegistrationsIInv, NEW r \in Reqs, Enlist(r), UNCHANGED <<regs, apps>>, Observe
    PROVE  RegistrationsIInv'
<1> DEFINE j == job[r]
           row == [j.held EXCEPT !.gen = j.no]
<1>1. j.at = "enlist" /\ UNCHANGED <<project, envs, started>>
  BY DEF Enlist
<1>2. CASE End(r) /\ UNCHANGED member
  BY <1>1, <1>2, EndKeeps
<1>3. CASE member' = [member EXCEPT ![j.id][j.user] = row] /\ Go(r, "answer")
  <2>1. row \in Member /\ row.gen = j.no /\ row.role = j.held.role
    BY <1>1, MemberAtHand DEF Member, Enlisting
  <2>2. j.no # 0 /\ (j.kind = "create" => j.held.role = "owner")
    BY <1>1, MemberAtHand DEF Enlisting
  <2> HIDE DEF row
  <2> QED
    BY <1>1, <1>3, <2>1, <2>2, MemberKeeps DEF Enlisting
<1> QED
  BY <1>2, <1>3 DEF Enlist

LEMMA SavedMember ==
    ASSUME NEW row \in Member, NEW found \in Member, NEW held \in Member
    PROVE  Saved(row, found, held) \in Member /\ (found = row => Saved(row, found, held) = held)
BY DEF Member, Saved

LEMMA UpdateMemberKeeps ==
    ASSUME RegistrationsIInv, NEW r \in Reqs, UpdateMember(r), UNCHANGED <<regs, apps>>, Observe
    PROVE  RegistrationsIInv'
<1> DEFINE j == job[r]
           old == member[j.id][j.user]
           row == IF j.found.gen # j.held.gen THEN j.held
                  ELSE IF old.gen = j.held.gen THEN Saved(old, j.found, j.held) ELSE old
<1>1. j.at = "updateMember" /\ UNCHANGED <<project, envs, started>>
  BY DEF UpdateMember
<1>2. CASE End(r) /\ UNCHANGED member
  BY <1>1, <1>2, EndKeeps
<1>3. CASE member' = [member EXCEPT ![j.id][j.user] = row] /\ Go(r, "answer")
  <2>1. /\ j.held \in Member /\ j.found \in Member /\ old \in Member
        /\ j.kind = "create" => j.held.role = "owner"
        /\ r \in lone => KnowsMembers(j)
    BY <1>1, MemberAtHand DEF Enlisting
  <2>2. row \in Member
    BY <2>1, SavedMember
  <2>3. r \in lone /\ j.kind = "create" => row.gen # 0 /\ row.role = "owner"
    <3>1. r \in lone /\ j.kind = "create" => j.held.gen = old.gen /\ old.gen # 0 /\ j.found = old
      BY <1>1, <2>1 DEF KnowsMembers
    <3>2. r \in lone /\ j.kind = "create" => row = j.held
      BY <2>1, <3>1, SavedMember
    <3> QED
      BY <2>1, <3>1, <3>2
  <2> HIDE DEF row
  <2> QED
    BY <1>1, <1>3, <2>2, <2>3, MemberKeeps DEF Enlisting
<1>4. (End(r) /\ UNCHANGED member) \/ (member' = [member EXCEPT ![j.id][j.user] = row] /\ Go(r, "answer"))
  <2>1. member \in [Ids -> [Users -> Member]] /\ j.id \in Ids /\ j.user \in Users
    BY <1>1, MemberAtHand DEF Enlisting
  <2> QED
    BY <2>1 DEF UpdateMember
<1> QED
  BY <1>2, <1>3, <1>4

LEMMA RemoveKeeps ==
    ASSUME RegistrationsIInv, NEW r \in Reqs, Remove(r), UNCHANGED <<regs, apps>>, Observe
    PROVE  RegistrationsIInv'
<1> DEFINE j == job[r]
           old == member[j.id][j.user]
           row == IF old.gen = j.held.gen THEN NoMember ELSE old
<1>1. j.at = "remove" /\ UNCHANGED <<project, envs, started>> /\ Go(r, "answer")
  BY DEF Remove
<1>2. /\ member \in [Ids -> [Users -> Member]] /\ j.id \in Ids /\ j.user \in Users /\ old \in Member
      /\ r \in lone => KnowsMembers(j)
  BY <1>1, MemberAtHand
<1>3. member' = [member EXCEPT ![j.id][j.user] = row]
  BY <1>2 DEF Remove
<1>4. row \in Member /\ (row.gen = 0 \/ row = old)
  BY <1>2, Nothing
<1>5. r \in lone => row.gen = 0
  <2>1. r \in lone => j.held = old
    BY <1>1, <1>2 DEF KnowsMembers
  <2> QED
    BY <2>1, Nothing
<1>6. j.kind = "revoke"
  BY <1>1, StagesTell
<1> HIDE DEF row
<1> QED
  BY <1>1, <1>3, <1>4, <1>5, <1>6, MemberKeeps

-----------------------------------------------------------------------------
(* The theorems *)

LEMMA StepPreserves ==
    ASSUME RegistrationsIInv, [Next]_vars
    PROVE  RegistrationsIInv'
<1>1. CASE UNCHANGED vars
  <2>1. ASSUME NEW q \in Reqs PROVE OwnOK(q)'
    <3>1. job'[q] = job[q] /\ OwnOK(q)
      BY <1>1 DEF vars, RegistrationsIInv
    <3>2. StageOK(job[q])' /\ Knows(job[q])'
      BY <1>1, <3>1 DEF vars, OwnOK, StageOK, Knows, EnvsOf, EnvsNamed, RegsAt, Exists, AppStages
    <3>3. ~raced' => Finds(job[q])'
      BY <1>1, <3>1 DEF vars, OwnOK, Finds, EnvsOf, EnvsNamed, RegsAt
    <3>4. q \in lone' => KnowsMembers(job[q])' /\ KnowsPlaces(job[q])' /\ KnowsRegs(job[q])'
      <4>1. q \in lone => KnowsMembers(job[q]) /\ KnowsPlaces(job[q]) /\ KnowsRegs(job[q])
        BY <3>1 DEF OwnOK
      <4>2. KnowsMembers(job[q]) => KnowsMembers(job[q])'
        BY <1>1, <3>1 DEF vars, KnowsMembers, Owners
      <4>3. KnowsPlaces(job[q]) => KnowsPlaces(job[q])'
        BY <1>1, <3>1 DEF vars, KnowsPlaces, EnvsOf
      <4>4. KnowsRegs(job[q]) => KnowsRegs(job[q])'
        BY <1>1, <3>1 DEF vars, KnowsRegs, PlaceOf, AppStages
      <4>5. lone' = lone
        BY <1>1 DEF vars
      <4> QED
        BY <4>1, <4>2, <4>3, <4>4, <4>5
    <3>5. Carries(job[q])'
      BY <3>1 DEF OwnOK
    <3> QED
      BY <3>2, <3>3, <3>4, <3>5 DEF OwnOK
  <2>2. TypeOK' /\ (job \in [Reqs -> JobRow])' /\ MembersInvited'
    BY <1>1 DEF vars, RegistrationsIInv, TypeOK, ProjectsTypeOK, MembersInvited
  <2>3. Consistent' /\ Apart' /\ NoDuplicates'
    BY <1>1 DEF vars, RegistrationsIInv, Consistent, Apart, NoDuplicates, Meets, Exists
  <2> QED
    BY <2>1, <2>2, <2>3 DEF RegistrationsIInv
<1>2. ASSUME NEW r \in Reqs, Step(r), Observe PROVE RegistrationsIInv'
  <2>1. CASE (PortalBegins(r) \/ ClientBegins(r)) /\ UNCHANGED <<regs, apps>>
    BY <1>2, <2>1, PortalBeginsKeeps, ClientBeginsKeeps
  <2>2. CASE PortalGoesOn(r) /\ UNCHANGED <<regs, apps>>
    BY <1>2, <2>2, InsertKeeps, SelectKeeps, UpdateKeeps, MakeEnvKeeps, InsertPreviewKeeps, ListEnvsKeeps, NextEnvKeeps,
       UpdateEnvKeeps, EnsureOwnerKeeps, EnlistKeeps, SelectMemberKeeps, UpdateMemberKeeps, CountKeeps,
       RemoveKeeps DEF PortalGoesOn
  <2>3. CASE ClientGoesOn(r) /\ UNCHANGED <<regs, apps>>
    BY <1>2, <2>3, InsertKeeps, UpdateKeeps DEF ClientGoesOn
  <2>4. CASE (Answer(r) \/ Abandon(r)) /\ UNCHANGED <<regs, apps>>
    BY <1>2, <2>4, EndsKeep
  <2>5. CASE FindEnv(r) \/ InsertEnv(r) \/ SelectEnv(r) \/ ForceEnv(r)
    <3>1. ForceEnv(r) => UNCHANGED <<regs, apps>>
      BY DEF ForceEnv
    <3> QED
      BY <1>2, <2>5, <3>1, FindEnvKeeps, InsertEnvKeeps, SelectEnvKeeps, UpdateEnvKeeps
  <2>6. CASE FindReg(r) \/ InsertReg(r) \/ SelectReg(r) \/ UpdateReg(r) \/ GetApp(r)
         \/ ReplaceApp(r) \/ CreateApp(r)
    BY <1>2, <2>6, FindRegKeeps, InsertRegKeeps, SelectRegKeeps, UpdateRegKeeps, GetAppKeeps, PutAppKeeps
  <2> QED
    BY <1>2, <2>1, <2>2, <2>3, <2>4, <2>5, <2>6 DEF Step
<1> QED
  BY <1>1, <1>2 DEF Next

LEMMA InitIInv == Init => RegistrationsIInv
<1> SUFFICES ASSUME Init PROVE RegistrationsIInv
  OBVIOUS
<1>1. PICK id \in {AnyId}, row \in Row \cup {NoRow}, old \in Names, by \in {"portal", "client"},
           owners \in SUBSET Users, others \in SUBSET Users :
       LET count == IF row = NoRow THEN 0 ELSE IF by = "client" THEN 1 ELSE Len(EnvNames)
           Began(k) == Assigned(id, [row EXCEPT !.name = old], EnvNames[k])
       IN
       /\ (by = "portal" /\ row # NoRow) <=> owners # {}
       /\ others = IF owners = {} THEN {} ELSE Users \ owners
       /\ row = NoRow \/ (row.active /\ row.name = AnyName)
       /\ (by = "portal") => row.domain # Base
       /\ (by = "client") => row.domain # None
       /\ project = [i \in Ids |-> IF i = id THEN row ELSE NoRow]
       /\ envs = [k \in 1 .. count |-> Began(k)]
       /\ member = [i \in Ids |-> [u \in Users |->
                      IF i # id THEN NoMember
                      ELSE IF u \in owners THEN [gen |-> 1, role |-> "owner"]
                      ELSE IF u \in others THEN [gen |-> 1, role |-> "viewer"] ELSE NoMember]]
       /\ invited = [i \in Ids |-> IF i = id THEN owners \cup others ELSE {}]
       /\ regs = IF by = "portal" \/ count = 0 THEN <<>>
                 ELSE <<[of |-> id, env |-> 1, status |-> "online"]>>
       /\ apps = [p \in Places |->
                    IF count = 1 /\ row.repo # None /\ by = "client" /\ p = <<old, EnvNames[1]>>
                    THEN [repo |-> row.repo, version |-> 1] ELSE NoApp]
       /\ job = [r \in Reqs |-> NoJob] /\ started = 0
       /\ lone = {} /\ raced = FALSE
  BY DEF Init
<1> DEFINE count == IF row = NoRow THEN 0 ELSE IF by = "client" THEN 1 ELSE Len(EnvNames)
           base == [row EXCEPT !.name = old]
<1>2. id \in Ids
  BY ProjectsAssumption DEF AnyId
<1>3. EnvNames \in Seq(STRING) /\ Len(EnvNames) \in Nat /\ 0 < Len(EnvNames) /\ DOMAIN EnvNames = 1 .. Len(EnvNames)
      /\ MaxRequests \in Nat /\ \A k, m \in DOMAIN EnvNames : EnvNames[k] = EnvNames[m] => k = m
  <2>1. EnvNames \in Seq(STRING) /\ EnvNames # <<>>
    BY ProjectsAssumption
  <2> QED
    BY <2>1, ProjectsAssumption
<1>4. count \in Nat /\ 1 .. count \subseteq DOMAIN EnvNames /\ (count # 0 => row \in Row)
  BY <1>3
<1>5. row \in Row => base \in Row
  BY DEF Row
<1>6. /\ envs = [k \in 1 .. count |-> Assigned(id, base, EnvNames[k])]
      /\ project = [i \in Ids |-> IF i = id THEN row ELSE NoRow]
      /\ regs = <<>> \/ (by = "client" /\ count = 1 /\ regs = <<[of |-> id, env |-> 1, status |-> "online"]>>)
  BY <1>1, <1>3
<1>7. member = [i \in Ids |-> [u \in Users |->
                      IF i # id THEN NoMember
                      ELSE IF u \in owners THEN [gen |-> 1, role |-> "owner"]
                      ELSE IF u \in others THEN [gen |-> 1, role |-> "viewer"] ELSE NoMember]]
      /\ invited = [i \in Ids |-> IF i = id THEN owners \cup others ELSE {}]
  BY <1>1
<1>8. job = [r \in Reqs |-> NoJob] /\ started = 0 /\ lone = {} /\ raced = FALSE
  BY <1>1
<1>9. apps = [p \in Places |->
                    IF count = 1 /\ row.repo # None /\ by = "client" /\ p = <<old, EnvNames[1]>>
                    THEN [repo |-> row.repo, version |-> 1] ELSE NoApp]
  BY <1>1
<1> HIDE DEF count, base
<1>10. \A k \in 1 .. count : /\ Assigned(id, base, EnvNames[k]) \in Env
                             /\ Assigned(id, base, EnvNames[k]).of = id
                             /\ Assigned(id, base, EnvNames[k]).name = EnvNames[k]
  <2> SUFFICES ASSUME NEW k \in 1 .. count
               PROVE  /\ Assigned(id, base, EnvNames[k]) \in Env
                      /\ Assigned(id, base, EnvNames[k]).of = id
                      /\ Assigned(id, base, EnvNames[k]).name = EnvNames[k]
    OBVIOUS
  <2>1. k \in DOMAIN EnvNames /\ count # 0
    BY <1>4
  <2>2. EnvNames[k] \in EnvName /\ base \in Row
    BY <1>3, <1>4, <1>5, <2>1 DEF EnvName
  <2> QED
    BY <1>2, <2>2, Assigns
<1>11. envs \in Seq(Env) /\ DOMAIN envs = 1 .. count
       /\ \A k \in 1 .. count : envs[k].of = id /\ envs[k].name = EnvNames[k]
  BY <1>4, <1>6, <1>10
<1>12. /\ regs \in Seq(Reg)
       /\ \A i \in DOMAIN regs : i = 1 /\ count = 1 /\ regs[i].of = id /\ regs[i].env = 1
  <2>1. CASE regs = <<>>
    BY <2>1
  <2>2. CASE count = 1 /\ regs = <<[of |-> id, env |-> 1, status |-> "online"]>>
    <3> DEFINE row1 == [of |-> id, env |-> 1, status |-> "online"]
    <3>1. row1 \in Reg /\ row1.of = id /\ row1.env = 1
      BY <1>2 DEF Reg
    <3>2. regs = <<row1>>
      BY <2>2
    <3> HIDE DEF row1
    <3>3. regs \in Seq(Reg) /\ DOMAIN regs = {1} /\ regs[1] = row1
      BY <3>1, <3>2
    <3> QED
      BY <2>2, <3>1, <3>3
  <2> QED
    BY <1>6, <2>1, <2>2
<1>13. Consistent
  <2>1. count # 0 => Exists(id)
    BY <1>2, <1>4, <1>6, Nothing DEF Exists
  <2> QED
    BY <1>4, <1>11, <1>12, <2>1 DEF Consistent
<1>14. NoDuplicates
  BY <1>3, <1>4, <1>11, <1>12 DEF NoDuplicates
<1>15. MembersInvited
  BY <1>7, Nothing DEF MembersInvited
<1>16. Apart
  BY <1>8, Nothing DEF Apart, Meets, Touches
<1>17. \A r \in Reqs : OwnOK(r)
  <2> SUFFICES ASSUME NEW r \in Reqs PROVE OwnOK(r)
    OBVIOUS
  <2>1. job[r] = NoJob /\ job[r].kind = "none" /\ job[r].at = "idle" /\ job[r].gitops = ""
    BY <1>8, Nothing
  <2>2. Carries(job[r])
    BY <2>1 DEF Carries
  <2> QED
    BY <1>8, <2>1, <2>2 DEF OwnOK, StageOK, Knows, Finds, Enlisting, Placed, RegStages, AppStages
<1>18. job \in [Reqs -> JobRow]
  BY <1>8, Nothing
<1>19. RowsOK
  <2>1. project \in [Ids -> Row \cup {NoRow}]
    BY <1>6
  <2>2. member \in [Ids -> [Users -> Member]]
    <3>1. \A role \in {"owner", "viewer"} : [gen |-> 1, role |-> role] \in Member
      BY <1>3 DEF Member, Roles, Rank
    <3> QED
      BY <1>7, <3>1, Nothing
  <2>3. apps \in [Places -> [repo : Repos \cup {None}, version : 0 .. MaxRequests + 1]]
    <3>1. count = 1 => row.repo \in Repos \cup {None}
      BY <1>4 DEF Row
    <3>2. 0 \in 0 .. MaxRequests + 1 /\ 1 \in 0 .. MaxRequests + 1
      BY <1>3
    <3> QED
      BY <1>9, <3>1, <3>2 DEF NoApp
  <2> QED
    BY <1>3, <1>8, <1>11, <1>12, <2>1, <2>2, <2>3 DEF RowsOK
<1>20. TypeOK
  <2>1. \A r \in Reqs :
          /\ job[r].kind \in Kinds /\ job[r].id \in Ids \cup {None}
          /\ job[r].copy \in Row \cup {NoRow} /\ job[r].selected \in Row \cup {NoRow}
          /\ job[r].place \in Env \cup {NoEnv} /\ job[r].was \in Env \cup {NoEnv}
          /\ job[r].held \in Member /\ job[r].found \in Member
    BY <1>18 DEF JobRow
  <2>2. invited \in [Ids -> SUBSET Users]
    BY <1>7
  <2>3. \A i \in DOMAIN regs : regs[i].env \in DOMAIN envs
    BY <1>11, <1>12
  <2> QED
    BY <1>8, <1>19, <2>1, <2>2, <2>3 DEF TypeOK, ProjectsTypeOK, RowsOK
<1> QED
  BY <1>13, <1>14, <1>15, <1>16, <1>17, <1>18, <1>20 DEF RegistrationsIInv

\* What the invariant says of requests that are answered.
LEMMA IInvAnswers == RegistrationsIInv => RegistrationsInv
<1> SUFFICES ASSUME RegistrationsIInv PROVE RegistrationsInv
  OBVIOUS
<1>1. ASSUME NEW r \in Reqs, Registered(r), LET j == job[r] IN TRUE
      PROVE  LET j == job[r] IN
             /\ j.asked # None => project[j.id].repo = j.asked
             /\ envs[j.env] = Assigned(j.id, project[j.id], j.name)
             /\ regs[j.reg] = [of |-> j.id, env |-> j.env, status |-> "online"]
             /\ j.gitops = "written" => project[j.id].repo # None /\ apps[PlaceOf(j)].repo = project[j.id].repo
  <2> DEFINE j == job[r]
  <2>1. r \in lone /\ j.kind = "register" /\ j.at = "answer" /\ Knows(j) /\ Carries(j) /\ KnowsRegs(j)
    BY <1>1 DEF Registered, RegistrationsIInv, OwnOK
  <2> HIDE DEF j
  <2>2. /\ j.asked # None => j.copy.repo = j.asked
        /\ j.reg \in RegsAt(j) /\ j.place = Assigned(j.id, j.copy, j.name)
    BY <2>1 DEF Knows, Placed, AppStages
  <2>3. /\ project[j.id] = j.copy /\ envs[j.env] = j.place /\ regs[j.reg].status = "online"
        /\ j.gitops = "written" => j.copy.repo # None /\ apps[PlaceOf(j)].repo = j.copy.repo
    BY <2>1 DEF Carries, KnowsRegs, RegStages, AppStages
  <2>4. regs[j.reg] \in Reg /\ regs[j.reg].of = j.id /\ regs[j.reg].env = j.env
    BY <2>2, Typed DEF RegsAt
  <2>5. regs[j.reg] = [of |-> j.id, env |-> j.env, status |-> "online"]
    BY <2>3, <2>4 DEF Reg
  <2> QED
    BY <2>2, <2>3, <2>5 DEF j
<1>2. OriginAgreed /\ PlacesAssigned
  BY <1>1 DEF OriginAgreed, PlacesAssigned
<1>3. NewProjectComplete
  <2> SUFFICES ASSUME NEW r \in Reqs, job[r].kind = "create", job[r].at = "answer"
               PROVE  /\ \A k \in DOMAIN EnvNames : \E i \in EnvsOf(job[r].id) : envs[i].name = EnvNames[k]
                      /\ r \in lone => job[r].user \in Owners(job[r].id)
    BY DEF NewProjectComplete
  <2>1. Knows(job[r]) /\ (r \in lone => KnowsMembers(job[r]))
    BY DEF RegistrationsIInv, OwnOK
  <2> QED
    BY <2>1 DEF Knows, KnowsMembers, AppStages
<1>4. HostsFollow
  <2> SUFFICES ASSUME NEW r \in lone, job[r].kind = "put", job[r].at = "answer", job[r].moved,
                      project[job[r].id].domain # None, NEW i \in EnvsOf(job[r].id)
               PROVE  envs[i] = Assigned(job[r].id, project[job[r].id], envs[i].name)
    BY DEF HostsFollow
  <2>1. r \in Reqs
    BY Typed
  <2>2. KnowsPlaces(job[r])
    BY <2>1 DEF RegistrationsIInv, OwnOK
  <2> QED
    BY <2>2 DEF KnowsPlaces
<1> QED
  BY <1>2, <1>3, <1>4 DEF RegistrationsIInv, RegistrationsInv, ProjectsInv

\* For any number of projects, environments, users and requests beside each other, what the portal
\* and POST /sdk/register answer about a project is so: no environment and no registration twice
\* unless two requests raced, and a request that had its rows to itself left them as it said.
THEOREM AnswersAgree == Spec => []RegistrationsInv
<1>1. RegistrationsIInv /\ [Next]_vars => RegistrationsIInv'
  BY StepPreserves
<1> QED
  BY <1>1, InitIInv, IInvAnswers, PTL DEF Spec

\* Only three steps write memberships.
LEMMA MembersMove ==
    ASSUME NEW r \in Reqs, Step(r)
    PROVE  member' = member \/ Enlist(r) \/ UpdateMember(r) \/ Remove(r)
<1>0. \A j : Accept(r, j) => member' = member
  BY DEF Accept
<1>1. CASE PortalBegins(r) \/ ClientBegins(r)
  <2>1. CASE PortalBegins(r)
    <3>1. \A a, row : Create(r, a, row) => member' = member
      BY <1>0 DEF Create
    <3>2. \A a, id, row : Put(r, a, id, row) => member' = member
      BY <1>0 DEF Put
    <3>3. \A a, id : Delete(r, a, id) \/ DeployPreview(r, id) => member' = member
      BY <1>0 DEF Delete, DeployPreview
    <3>4. \A a, id, u, role : Grant(r, a, id, u, role) \/ ChangeRole(r, a, id, u, role) => member' = member
      BY <1>0 DEF Grant, ChangeRole
    <3>5. \A a, id, u : Revoke(r, a, id, u) => member' = member
      BY <1>0 DEF Revoke
    <3> QED
      BY <2>1, <3>1, <3>2, <3>3, <3>4, <3>5 DEF PortalBegins
  <2>2. CASE ClientBegins(r)
    BY <1>0, <2>2 DEF ClientBegins, Register, Deregister, Beat
  <2> QED
    BY <1>1, <2>1, <2>2
<1>2. CASE PortalGoesOn(r)
  BY <1>2 DEF PortalGoesOn, InsertProject, Insert, Select, UpdateProject, Update, MakeEnv, InsertPreview, ListEnvs,
              NextEnv, MoveEnv, UpdateEnv, EnsureOwner, SelectMember, Count
<1>3. CASE ClientGoesOn(r) \/ Answer(r) \/ Abandon(r)
  BY <1>3 DEF ClientGoesOn, RegisterInserts, RegisterUpdates, Insert, Update, Answer, Abandon
<1>4. CASE FindEnv(r) \/ InsertEnv(r) \/ SelectEnv(r) \/ ForceEnv(r) \/ FindReg(r) \/ InsertReg(r)
           \/ SelectReg(r) \/ UpdateReg(r) \/ GetApp(r)
           \/ ReplaceApp(r) \/ CreateApp(r)
  BY <1>4 DEF FindEnv, InsertEnv, SelectEnv, ForceEnv, UpdateEnv, FindReg, InsertReg, SelectReg, UpdateReg,
              GetApp, ReplaceApp, CreateApp, Deploys, portal
<1> QED
  BY <1>1, <1>2, <1>3, <1>4 DEF Step

\* "Cannot remove the last project owner": while DELETE of a membership has the memberships of its
\* project to itself, a project that has an owner keeps one.
THEOREM OwnersStay == Spec => OwnerKept
<1> DEFINE Kept == \A r \in lone, id \in Ids :
          job[r].kind = "revoke" /\ job[r].id = id /\ Owners(id) # {} => Owners(id)' # {}
<1>1. ASSUME RegistrationsIInv, [Next]_vars PROVE Kept \/ UNCHANGED <<member>>
  <2> SUFFICES ASSUME member' # member, NEW r \in lone, NEW id \in Ids,
                      job[r].kind = "revoke", job[r].id = id, Owners(id) # {}
               PROVE  Owners(id)' # {}
    OBVIOUS
  <2>1. PICK q \in Reqs : Step(q) /\ Observe
    BY <1>1 DEF Next, vars
  <2>2. Enlist(q) \/ UpdateMember(q) \/ Remove(q)
    BY <2>1, MembersMove
  <2>3. /\ job[q].at \in Enlisting \cup {"remove"}
        /\ job[q].at = "remove" => Remove(q)
    BY <2>2 DEF Enlist, UpdateMember, Remove, Enlisting
  <2>4. job[q].kind \in {"create", "grant", "role", "revoke"} /\ (job[q].kind = "revoke" => job[q].at = "remove")
    BY <1>1, <2>3, StagesTell DEF Enlisting
  <2>5. q = r
    <3> SUFFICES ASSUME q # r PROVE FALSE
      OBVIOUS
    <3>1. Meets(job[q], job[r]) = {}
      BY <1>1 DEF RegistrationsIInv, Apart
    <3> QED
      BY <2>4, <3>1 DEF Meets, Touches
  <2>6. Remove(r) /\ job[r].at = "remove"
    BY <2>3, <2>4, <2>5
  <2>7. KnowsMembers(job[r]) /\ member \in [Ids -> [Users -> Member]]
    BY <1>1, <2>5, <2>6, MemberAtHand
  <2>8. \A u \in Users : u # job[r].user => member'[id][u] = member[id][u]
    BY <2>6, <2>7 DEF Remove
  <2>9. PICK w \in Owners(id) : w # job[r].user
    BY <2>6, <2>7 DEF KnowsMembers
  <2>10. w \in Owners(id)'
    BY <2>8, <2>9 DEF Owners
  <2> QED
    BY <2>10
<1>2. RegistrationsIInv /\ [Next]_vars => RegistrationsIInv'
  BY StepPreserves
<1>3. RegistrationsIInv /\ [Next]_vars => [Kept]_<<member>>
  BY <1>1
<1> QED
  BY <1>2, <1>3, InitIInv, PTL DEF Spec, OwnerKept

\* Both at once, as the runs check them: projects and registrations agree, and a deployment that was
\* told deployed is what Argo CD runs.
THEOREM PlacesAgree == MCSpec => []PlacesInv
<1> DEFINE IInv == RegistrationsIInv /\ AppsIInv
<1>1. MCInit => IInv
  BY InitIInv, AppsInitIInv DEF MCInit
<1>2. IInv /\ [MCNext]_<<vars, appsVars, part>> => IInv'
  <2> SUFFICES ASSUME IInv, [MCNext]_<<vars, appsVars, part>> PROVE IInv'
    OBVIOUS
  <2>1. [Next]_vars /\ [AppsNext]_appsVars
    BY DEF MCNext
  <2> QED
    BY <2>1, StepPreserves, AppsStep
<1>3. IInv => PlacesInv
  BY IInvAnswers DEF PlacesInv, AppsIInv, AppsInv
<1> QED
  BY <1>1, <1>2, <1>3, PTL DEF MCSpec
=============================================================================
