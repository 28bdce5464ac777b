---------------------------- MODULE Deployments ----------------------------
(***************************************************************************)
(* The deployments of one project on one branch: the background job of     *)
(* POST /deploy, rollback, restart, scale and terminate (platform/api/src/ *)
(* routes/deployments.ts), the webhooks that deploy and close previews     *)
(* (routes/webhooks.ts) and the decay of old previews (lib/preview-        *)
(* decay.ts).  All of them save rows they found earlier; every await ends  *)
(* an action.  Of a row the status and the presence of terminatedAt are    *)
(* kept.  The preview's objects in Kubernetes are named after the branch,  *)
(* so all previews of the branch share them.                               *)
(***************************************************************************)
EXTENDS Naturals, EntitySave

CONSTANTS
    MaxRows,    \* bound: deployments created
    MaxPolls,   \* attempts the job makes to see the application healthy (36 in the code)
    EarlyPolls, \* attempts after which an application in progress is good enough (6)
    MaxFaults,  \* bound: statements of the database that fail, and crashes
    MaxRequests,\* bound: requests on existing deployments
    Origins,    \* bound: how a run creates each deployment
    MaxOps      \* bound: requests on existing deployments at a time

\* POST /deploy of a preview or of another environment; a webhook whose URL a closing webhook can
\* find, one whose URL it cannot, one for main; POST /rollback.
Kinds == {"preview", "argo", "hook", "push", "main", "rollback"}

ASSUME DeploymentsAssumption ==
    /\ {MaxRows, MaxPolls, EarlyPolls, MaxFaults, MaxRequests, MaxOps} \subseteq Nat
    /\ MaxPolls > 0 /\ Origins \in [1 .. MaxRows -> SUBSET Kinds]

VARIABLES
    kind,     \* who created each deployment
    row,      \* the table deployments
    place,    \* where each job, request and the decay check is
    about,    \* the deployment each of them works on
    entity,   \* the entity each of them has loaded and changed
    selected, \* what save selected again before its UPDATE
    chosen,   \* whether save has made that selection
    success,  \* whether each job's deployment has succeeded
    polls,    \* attempts each job has made
    listed,   \* deployments the decay check has still to expire
    found,    \* the rows as the decay check found them
    cutoff,   \* deployments 1 .. cutoff are older than 72 hours
    running,  \* the deployment whose image the branch's objects run, or Nobody
    faults,   \* failures so far
    requests, \* requests on existing deployments so far
    touched,  \* history: deployments somebody else found, or a crash hit, while their job ran, or
              \*   whose webhook ended when ClickUp could not be told
    restarted,\* history: deployments a restart was asked for
    shared,   \* history: terminations whose deployment somebody else held meanwhile
    kept,     \* history: a deletion of the branch's objects has failed unnoticed
    told      \* history: what the last answer said of each deployment's termination

work == <<place, about, entity, selected, chosen>>
tries == <<success, polls>>
decay == <<listed, found, cutoff>>
history == <<requests, touched, restarted, shared, kept, told>>
deploymentVars == <<kind, row, work, tries, decay, running, faults, history>>

\* A job is named by its deployment, a request by a slot above them.
Rows == 1 .. MaxRows
Ops == MaxRows + 1 .. MaxRows + MaxOps
Decay == 0
Actors == Rows \cup Ops \cup {Decay}
Nobody == 0
Status == {"pending", "building", "deploying", "deployed", "failed", "rolled_back",
           "terminated", "expired"}
InProgress == {"pending", "building", "deploying"}
Row == [status : Status, stopped : BOOLEAN]
Made(s) == [status |-> s, stopped |-> FALSE]
Places == {"idle", "timer", "comment", "building", "deploying", "apply", "poll", "final", "result",
           "followup", "catch", "failing", "terminate", "restart", "wait", "resave", "scale",
           "rollback", "create", "close", "merge", "expire"}

DeploymentsTypeOK ==
    /\ kind \in [Rows -> Kinds \cup {"none"}]
    /\ row \in [Rows -> Row]
    /\ place \in [Actors -> Places]
    /\ about \in [Actors -> Rows \cup {Nobody}]
    /\ entity \in [Actors -> Row] /\ selected \in [Actors -> Row]
    /\ chosen \in [Actors -> BOOLEAN]
    /\ success \in [Rows -> BOOLEAN] /\ polls \in [Rows -> 0 .. MaxPolls]
    /\ listed \subseteq Rows /\ found \in [Rows -> Row] /\ cutoff \in Rows \cup {Nobody}
    /\ running \in Rows \cup {Nobody}
    /\ faults \in 0 .. MaxFaults /\ requests \in 0 .. MaxRequests
    /\ touched \subseteq Rows /\ restarted \subseteq Rows /\ shared \subseteq Ops /\ kept \in BOOLEAN
    /\ told \in [Rows -> {"nothing", "terminated", "terminated alone"}]

NoRow == Made("pending")
DeploymentsInit ==
    /\ kind = [r \in Rows |-> "none"] /\ row = [r \in Rows |-> NoRow]
    /\ place = [a \in Actors |-> "idle"] /\ about = [a \in Actors |-> Nobody]
    /\ entity = [a \in Actors |-> NoRow] /\ selected = [a \in Actors |-> NoRow]
    /\ chosen = [a \in Actors |-> FALSE]
    /\ success = [r \in Rows |-> FALSE] /\ polls = [r \in Rows |-> 0]
    /\ listed = {} /\ found = [r \in Rows |-> NoRow] /\ cutoff = Nobody
    /\ running = Nobody /\ faults = 0 /\ requests = 0
    /\ touched = {} /\ restarted = {} /\ shared = {} /\ kept = FALSE
    /\ told = [r \in Rows |-> "nothing"]

Created == {r \in Rows : kind[r] # "none"}
Latest(s) == CHOOSE r \in s : \A q \in s : q <= r
GoTo(a, st) == place' = [place EXCEPT ![a] = st]

\* The handler is over; its variables are gone.
Done(a) ==
    /\ GoTo(a, "idle")
    /\ about' = [about EXCEPT ![a] = Nobody]
    /\ entity' = [entity EXCEPT ![a] = NoRow] /\ selected' = [selected EXCEPT ![a] = NoRow]
    /\ chosen' = [chosen EXCEPT ![a] = FALSE]

\* findOne, and what the handler then changes of its copy.
Found(a, st, copy) ==
    /\ GoTo(a, st)
    /\ entity' = [entity EXCEPT ![a] = copy]
    /\ UNCHANGED <<about, selected, chosen>>

-----------------------------------------------------------------------------
(* save *)

Saving == {"building", "deploying", "result", "failing", "terminate", "restart", "resave",
           "scale", "rollback", "close", "merge", "expire"}

\* The first selection.  The entity of a webhook was created, not found: it has no terminatedAt
\* for save to compare.
Select(a) ==
    /\ place[a] \in Saving /\ ~chosen[a]
    /\ LET now == row[about[a]] IN
       /\ selected' = [selected EXCEPT ![a] = now]
       /\ entity' = [entity EXCEPT ![a].stopped =
             IF a \in Rows /\ kind[a] \in {"hook", "push"} THEN now.stopped ELSE @]
    /\ chosen' = [chosen EXCEPT ![a] = TRUE]
    /\ UNCHANGED <<kind, row, place, about, tries, decay, running, faults, history>>

\* The UPDATE.
Updated(a) ==
    /\ chosen[a]
    /\ row' = [row EXCEPT ![about[a]] = Saved(@, selected[a], entity[a])]

\* The handler goes on with the copy it has saved.
Onward(a, st, copy) ==
    /\ GoTo(a, st)
    /\ entity' = [entity EXCEPT ![a] = copy] /\ selected' = [selected EXCEPT ![a] = NoRow]
    /\ chosen' = [chosen EXCEPT ![a] = FALSE]
    /\ UNCHANGED about

\* A statement of the database fails.
Fault == faults < MaxFaults /\ faults' = faults + 1

-----------------------------------------------------------------------------
(* POST /deploy and its job *)

NewRow(r, k) ==
    /\ kind[r] = "none" /\ \A q \in Rows : q < r => kind[q] # "none"
    /\ k \in Origins[r]

\* The row is saved and the job's timer set, one second from now.
Deploy(r, k) ==
    /\ NewRow(r, k) /\ k \in {"preview", "argo"}
    /\ kind' = [kind EXCEPT ![r] = k] /\ row' = [row EXCEPT ![r] = Made("pending")]
    /\ GoTo(r, "timer") /\ about' = [about EXCEPT ![r] = r]
    /\ UNCHANGED <<entity, selected, chosen, tries, decay, running, faults, history>>

StartJob(r) ==
    /\ place[r] = "timer"
    /\ Found(r, "building", [row[r] EXCEPT !.status = "building"])
    /\ UNCHANGED <<kind, row, tries, decay, running, faults, history>>

BuildingSaved(r) ==
    /\ place[r] = "building" /\ Updated(r)
    /\ Onward(r, "deploying", [entity[r] EXCEPT !.status = "deploying"])
    /\ UNCHANGED <<kind, tries, decay, running, faults, history>>

DeployingSaved(r) ==
    /\ place[r] = "deploying" /\ Updated(r)
    /\ Onward(r, "apply", entity[r])
    /\ UNCHANGED <<kind, tries, decay, running, faults, history>>

\* deployK8sPreview: the Deployment of the branch is created or replaced, or neither works; errors
\* of its Service and its Ingress are ignored.
DeployK8sPreview(r, ok) == running' = IF ok THEN r ELSE running

ApplyPreview(r, ok) ==
    /\ place[r] = "apply" /\ kind[r] = "preview"
    /\ success' = [success EXCEPT ![r] = ok]
    /\ DeployK8sPreview(r, ok)
    /\ GoTo(r, "final")
    /\ UNCHANGED <<kind, row, about, entity, selected, chosen, polls, decay, faults, history>>

\* ensureAndSyncArgoApp, then ensureProjectIngress, whose outcome nobody reads.
ApplyArgo(r, ok) ==
    /\ place[r] = "apply" /\ kind[r] = "argo"
    /\ GoTo(r, IF ok THEN "poll" ELSE "final")
    /\ UNCHANGED <<kind, row, about, entity, selected, chosen, tries, decay, running, faults, history>>

\* One attempt to see the application: an error counts as one that is not ready.
Poll(r, seen) ==
    LET good == seen = "healthy" \/ (seen = "progressing" /\ polls'[r] >= EarlyPolls)
    IN
    /\ place[r] = "poll" /\ polls[r] < MaxPolls
    /\ polls' = [polls EXCEPT ![r] = @ + 1]
    /\ success' = [success EXCEPT ![r] = good]
    /\ GoTo(r, IF good \/ seen = "degraded" \/ polls'[r] = MaxPolls THEN "final" ELSE "poll")
    /\ UNCHANGED <<kind, row, about, entity, selected, chosen, decay, running, faults, history>>

\* Mutant: the outcome is not looked at.
FinalDeployed(r) ==
    /\ place[r] = "final"
    /\ Found(r, "result", [row[r] EXCEPT !.status = "deployed"])
    /\ polls' = [polls EXCEPT ![r] = 0]
    /\ UNCHANGED <<kind, row, success, decay, running, faults, history>>

\* The row is found again, and its status set whatever it says by now.
Final(r) ==
    /\ place[r] = "final"
    /\ Found(r, "result", IF success[r]
                          THEN [row[r] EXCEPT !.status = "deployed"]
                          ELSE [row[r] EXCEPT !.status = "failed"])
    /\ polls' = [polls EXCEPT ![r] = 0]
    /\ UNCHANGED <<kind, row, success, decay, running, faults, history>>

ResultSaved(r) ==
    /\ place[r] = "result" /\ Updated(r)
    /\ IF success[r] /\ kind[r] \in {"preview", "argo"}
       THEN Onward(r, "followup", entity[r]) ELSE Done(r)
    /\ UNCHANGED <<kind, tries, decay, running, faults, history>>

\* The comment and the link in ClickUp, if the branch names a task.
Followup(r) ==
    /\ place[r] = "followup"
    /\ Done(r)
    /\ UNCHANGED <<kind, row, tries, decay, running, faults, history>>

\* Mutant: the job has no catch clause.
JobFailsUncaught(r) ==
    /\ kind[r] \in {"preview", "argo"}
    /\ place[r] \in {"timer", "building", "deploying", "final", "result"} /\ Fault
    /\ Done(r)
    /\ UNCHANGED <<kind, row, tries, decay, running, history>>

\* An error anywhere in the job.
JobFails(r) ==
    /\ kind[r] \in {"preview", "argo"}
    /\ \/ place[r] \in {"timer", "building", "deploying", "final", "result"} /\ Fault
       \/ place[r] = "followup" /\ UNCHANGED faults
    /\ Onward(r, "catch", NoRow)
    /\ UNCHANGED <<kind, row, tries, decay, running, history>>

\* Mutant: the status is not looked at.
CatchAny(r) ==
    /\ place[r] = "catch"
    /\ Found(r, "failing", [row[r] EXCEPT !.status = "failed"])
    /\ UNCHANGED <<kind, row, tries, decay, running, faults, history>>

\* The catch clause finds the row again: only a deployment in progress becomes failed.
Catch(r) ==
    /\ place[r] = "catch"
    /\ IF row[r].status \in InProgress
       THEN Found(r, "failing", [row[r] EXCEPT !.status = "failed"]) ELSE Done(r)
    /\ UNCHANGED <<kind, row, tries, decay, running, faults, history>>

FailingSaved(r) ==
    /\ place[r] = "failing" /\ Updated(r)
    /\ Done(r)
    /\ UNCHANGED <<kind, tries, decay, running, faults, history>>

\* A second error is swallowed.
CatchFails(r) ==
    /\ place[r] \in {"catch", "failing"} /\ Fault
    /\ Done(r)
    /\ UNCHANGED <<kind, row, tries, decay, running, history>>

-----------------------------------------------------------------------------
(* Webhooks *)

\* A push to another branch, or an opened pull or merge request: the request itself deploys, after a
\* push that names a task has been told to ClickUp.
Hook(r, k) ==
    /\ NewRow(r, k) /\ k \in {"hook", "push"}
    /\ kind' = [kind EXCEPT ![r] = k] /\ row' = [row EXCEPT ![r] = Made("building")]
    /\ about' = [about EXCEPT ![r] = r]
    /\ entity' = [entity EXCEPT ![r] = Made("building")]
    /\ GoTo(r, "comment")
    /\ UNCHANGED <<selected, chosen, tries, decay, running, faults, history>>

\* There was nothing to tell, or ClickUp and GitLab have answered, whatever it was.
HookGoesOn(r) ==
    /\ place[r] = "comment" /\ GoTo(r, "apply")
    /\ UNCHANGED <<kind, row, about, entity, selected, chosen, tries, decay, running, faults, history>>

\* postComment throws, outside of the clause that would save the row as failed: the request is
\* answered 400, and the row stays as it is.
CommentFails(r) ==
    /\ place[r] = "comment" /\ Done(r) /\ touched' = touched \cup {r}
    /\ UNCHANGED <<kind, row, tries, decay, running, faults, requests, restarted, shared, kept, told>>

\* Whatever deployK8sPreview answers, the row becomes deployed.
HookApply(r, ok) ==
    /\ place[r] = "apply" /\ kind[r] \in {"hook", "push"}
    /\ DeployK8sPreview(r, ok)
    /\ Onward(r, "result", [entity[r] EXCEPT !.status = "deployed"])
    /\ UNCHANGED <<kind, row, tries, decay, faults, history>>

\* That save fails: the row becomes failed.
HookFails(r) ==
    /\ place[r] = "result" /\ kind[r] \in {"hook", "push"} /\ Fault
    /\ Onward(r, "failing", [entity[r] EXCEPT !.status = "failed"])
    /\ UNCHANGED <<kind, row, tries, decay, running, history>>

\* A push to main: nothing in this program takes the row any further.
HookMain(r) ==
    /\ NewRow(r, "main")
    /\ kind' = [kind EXCEPT ![r] = "main"] /\ row' = [row EXCEPT ![r] = Made("pending")]
    /\ UNCHANGED <<work, tries, decay, running, faults, history>>

-----------------------------------------------------------------------------
(* Requests on a deployment *)

Held(r) == r \in listed \/ \E a \in Actors : about[a] = r

Free(o) == place[o] = "idle" /\ \A p \in Ops : p < o => place[p] # "idle"

\* A request has found the row r and changed its copy.
FindRow(o, r, st, copy) ==
    /\ requests < MaxRequests /\ requests' = requests + 1
    /\ GoTo(o, st)
    /\ about' = [about EXCEPT ![o] = r] /\ entity' = [entity EXCEPT ![o] = copy]
    /\ touched' = IF place[r] # "idle" THEN touched \cup {r} ELSE touched
    /\ shared' = (shared \ {o}) \cup {p \in Ops : about[p] = r /\ place[p] = "terminate"}
                                \cup (IF st = "terminate" /\ Held(r) THEN {o} ELSE {})

Begin(o, r, st, copy) ==
    /\ Free(o) /\ r \in Created
    /\ FindRow(o, r, st, copy)
    /\ UNCHANGED <<kind, row, selected, chosen, tries, decay, running, faults, kept>>

Terminate(o, r) ==
    /\ Begin(o, r, "terminate", [row[r] EXCEPT !.status = "terminated", !.stopped = TRUE])
    /\ UNCHANGED <<restarted, told>>

\* The number of replicas goes into the metadata.
Scale(o, r) ==
    /\ Begin(o, r, "scale", row[r])
    /\ UNCHANGED <<restarted, told>>

RestartDeployment(o, r) ==
    /\ Begin(o, r, "restart", [row[r] EXCEPT !.status = "pending"])
    /\ restarted' = restarted \cup {r}
    /\ told' = [told EXCEPT ![r] = "nothing"]

Rollback(o, r) ==
    /\ Begin(o, r, "rollback", [row[r] EXCEPT !.status = "rolled_back", !.stopped = TRUE])
    /\ told' = [told EXCEPT ![r] = "nothing"]
    /\ UNCHANGED restarted

\* terminateK8sPreview: its errors are swallowed.
DeleteObjects(deleted) ==
    /\ running' = IF deleted THEN Nobody ELSE running
    /\ kept' = (kept \/ (~deleted /\ running # Nobody))

\* A pull or merge request is closed or merged: the objects are deleted, and the newest row with
\* the URL that its webhooks give is found.
CloseNewest(o, st, deleted) ==
    LET hooks == {r \in Rows : kind[r] = "hook"}
        r == Latest(hooks)
    IN
    /\ Free(o) /\ st \in {"close", "merge"}
    /\ DeleteObjects(deleted)
    /\ IF hooks = {}
       THEN UNCHANGED <<work, requests, touched, shared, told>>
       ELSE /\ FindRow(o, r, st, [row[r] EXCEPT !.stopped = TRUE, !.status =
                                     IF st = "close" THEN "terminated" ELSE "deployed"])
            /\ told' = [told EXCEPT ![r] = "nothing"]
            /\ UNCHANGED <<selected, chosen>>
    /\ UNCHANGED <<kind, row, tries, decay, faults, restarted>>

\* The answer to a termination.
Terminated(o) ==
    /\ place[o] = "terminate" /\ Updated(o)
    /\ told' = [told EXCEPT ![about[o]] =
                   IF o \in shared THEN "terminated" ELSE "terminated alone"]
    /\ shared' = shared \ {o}
    /\ Done(o)
    /\ UNCHANGED <<kind, tries, decay, running, faults, requests, touched, restarted, kept>>

Answered(o) ==
    /\ place[o] \in {"scale", "close", "merge", "resave"} /\ Updated(o)
    /\ Done(o)
    /\ UNCHANGED <<kind, tries, decay, running, faults, history>>

\* The restart is answered; its timer, two seconds from now, holds on to the entity.
RestartSaved(o) ==
    /\ place[o] = "restart" /\ Updated(o)
    /\ Onward(o, "wait", entity[o])
    /\ UNCHANGED <<kind, tries, decay, running, faults, history>>

RestartTimer(o) ==
    /\ place[o] = "wait"
    /\ Onward(o, "resave", [entity[o] EXCEPT !.status = "deployed"])
    /\ UNCHANGED <<kind, row, tries, decay, running, faults, history>>

\* The rolled back row is saved, then a row that says the previous version is deployed.
RollbackSaved(o) ==
    /\ place[o] = "rollback" /\ Updated(o)
    /\ Onward(o, "create", entity[o])
    /\ UNCHANGED <<kind, tries, decay, running, faults, history>>

RollbackCreate(o, r) ==
    /\ place[o] = "create" /\ NewRow(r, "rollback")
    /\ kind' = [kind EXCEPT ![r] = "rollback"] /\ row' = [row EXCEPT ![r] = Made("deployed")]
    /\ Done(o)
    /\ UNCHANGED <<tries, decay, running, faults, history>>

\* The database fails a request, which answers 400.
RequestFails(o) ==
    /\ place[o] \in {"terminate", "scale", "restart", "rollback", "create", "close", "merge"}
    /\ Fault
    /\ Done(o)
    /\ UNCHANGED <<kind, row, tries, decay, running, history>>

-----------------------------------------------------------------------------
(* runDecayCheck, every 15 minutes *)

\* A deployment's job is long over when the deployment is 72 hours old.
Age ==
    /\ cutoff + 1 \in Created /\ place[cutoff + 1] = "idle"
    /\ cutoff' = cutoff + 1
    /\ UNCHANGED <<kind, row, work, tries, listed, found, running, faults, history>>

\* The rows with a preview environment and a URL; webhooks and rollbacks give theirs no environment,
\* or no URL.
Stale == {r \in 1 .. cutoff :
            kind[r] = "preview" /\ row[r].status \in {"deployed", "building", "deploying"}}

ListStale ==
    /\ place[Decay] = "idle" /\ listed = {} /\ Stale # {}
    /\ listed' = Stale
    /\ found' = [r \in Rows |-> IF r \in Stale THEN row[r] ELSE NoRow]
    /\ shared' = shared \cup {o \in Ops : about[o] \in Stale /\ place[o] = "terminate"}
    /\ UNCHANGED <<kind, row, work, tries, cutoff, running, faults, requests, touched, restarted, kept, told>>

\* The branch's objects are deleted, then the row as it was listed is saved as expired.
Expire(r, deleted) ==
    /\ place[Decay] = "idle" /\ r \in listed
    /\ DeleteObjects(deleted)
    /\ GoTo(Decay, "expire")
    /\ about' = [about EXCEPT ![Decay] = r]
    /\ entity' = [entity EXCEPT ![Decay] =
                     [found[r] EXCEPT !.status = "expired", !.stopped = TRUE]]
    /\ UNCHANGED <<kind, row, selected, chosen, tries, decay, faults, requests, touched, restarted, shared, told>>

NextStale ==
    /\ listed' = listed \ {about[Decay]}
    /\ found' = [found EXCEPT ![about[Decay]] = NoRow]
    /\ Done(Decay)
    /\ UNCHANGED <<kind, tries, cutoff, running, history>>

Expired == place[Decay] = "expire" /\ Updated(Decay) /\ NextStale /\ UNCHANGED faults
ExpireFails == place[Decay] = "expire" /\ Fault /\ NextStale /\ UNCHANGED row

-----------------------------------------------------------------------------
\* The process is gone with its timers and requests, the rows and the objects stay.
Stop ==
    /\ place' = [a \in Actors |-> "idle"] /\ about' = [a \in Actors |-> Nobody]
    /\ entity' = [a \in Actors |-> NoRow] /\ selected' = [a \in Actors |-> NoRow]
    /\ chosen' = [a \in Actors |-> FALSE]
    /\ listed' = {} /\ found' = [r \in Rows |-> NoRow]
    /\ touched' = touched \cup {r \in Rows : place[r] # "idle"}
    /\ polls' = [r \in Rows |-> 0]
    /\ UNCHANGED <<kind, row, success, cutoff, running, requests, restarted, shared, kept, told>>

\* Killed, or restarted for an update.
ApiCrash == Fault /\ Stop

\* The save of a restart's timer fails: nobody handles the rejection, and Node.js exits.
TimerRejected == (\E o \in Ops : place[o] = "resave") /\ Fault /\ Stop

-----------------------------------------------------------------------------
JobStep(r) ==
    \/ StartJob(r) \/ BuildingSaved(r) \/ DeployingSaved(r) \/ Select(r) \/ HookGoesOn(r)
    \/ \E ok \in BOOLEAN : ApplyPreview(r, ok) \/ ApplyArgo(r, ok) \/ HookApply(r, ok)
    \/ \E seen \in {"healthy", "progressing", "degraded", "other"} : Poll(r, seen)
    \/ Final(r) \/ ResultSaved(r) \/ Followup(r) \/ Catch(r) \/ FailingSaved(r)

JobFault(r) == JobFails(r) \/ CatchFails(r) \/ HookFails(r) \/ CommentFails(r)

Request(o) ==
    \/ \E r \in Rows : Terminate(o, r) \/ Scale(o, r) \/ RestartDeployment(o, r) \/ Rollback(o, r)
    \/ \E st \in {"close", "merge"}, deleted \in BOOLEAN : CloseNewest(o, st, deleted)
    \/ Select(o) \/ Terminated(o) \/ Answered(o) \/ RestartSaved(o) \/ RestartTimer(o)
    \/ RollbackSaved(o) \/ \E r \in Rows : RollbackCreate(o, r)
    \/ RequestFails(o)

DecayCheck ==
    \/ Age \/ ListStale \/ Select(Decay) \/ Expired \/ ExpireFails
    \/ \E r \in Rows, deleted \in BOOLEAN : Expire(r, deleted)

DeploymentsNext ==
    \/ \E r \in Rows :
          \/ \E k \in Kinds : Deploy(r, k) \/ Hook(r, k)
          \/ HookMain(r) \/ JobStep(r) \/ JobFault(r)
    \/ \E o \in Ops : Request(o)
    \/ DecayCheck
    \/ ApiCrash \/ TimerRejected

\* A job that can go on does: its awaits return, timers fire.
DeploymentsSpec == DeploymentsInit /\ [][DeploymentsNext]_deploymentVars /\ \A r \in Rows : WF_deploymentVars(JobStep(r))

-----------------------------------------------------------------------------
(* Properties *)

\* What is left of "TERMINATED --> [*]" (guides/preview-environments.md:42), since a job saves over a
\* termination that came while it ran: a deployment terminated while no job, request or decay check held its row
\* stays terminated until it is restarted, rolled back or closed by a webhook.
LoneTerminationSticks ==
    \A r \in Rows : told[r] = "terminated alone" =>
        row[r].status = "terminated" /\ row[r].stopped

\* The history of a deployment does not claim what Kubernetes or Argo CD never confirmed: one that
\* POST /deploy made and nobody restarted says deployed only after its own job succeeded, whatever
\* requests, decay checks and crashes overlapped.
DeployedSucceeded ==
    \A r \in Rows \ restarted :
        kind[r] \in {"preview", "argo"} /\ row[r].status = "deployed" => success[r]

\* A preview that expired no longer runs, unless Kubernetes refused the deletion and nobody noticed.
ExpiredIsGone ==
    \A r \in Rows : row[r].status = "expired" /\ ~kept => running # r

\* An error after the result was saved (the comment in ClickUp) does not make the job turn its
\* deployment into a failed one, unless somebody else found the row while the job ran.
FollowupKeepsDeployed ==
    [][\A r \in Rows :
          place[r] # "idle" /\ row[r].status = "deployed" /\ row'[r].status = "failed" =>
             r \in touched]_deploymentVars

\* A deployment does not stay in progress: its job ends with a status that says how, unless
\* somebody else found the row meanwhile, the process died, the database failed twice, or its
\* webhook could not tell ClickUp, which leaves the row building for good.
JobsSettle ==
    \A r \in Rows : place[r] # "idle" ~>
        /\ place[r] = "idle"
        /\ row[r].status \in InProgress => r \in touched \/ faults > 1

\* The rows tell the truth about Kubernetes and Argo CD - deployed was confirmed, expired is gone - and
\* a termination that nothing overlapped stands.
RowsTrue == DeploymentsTypeOK /\ DeployedSucceeded /\ ExpiredIsGone /\ LoneTerminationSticks
=============================================================================
