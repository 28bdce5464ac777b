---------------------------- MODULE Applications ----------------------------
(***************************************************************************)
(* The Argo CD Application and the Ingress of one environment, and those   *)
(* who write them: deployments (ensureAndSyncArgoApp, ensureProjectIngress *)
(* and the poll of platform/api/src/routes/deployments.ts) and SDK         *)
(* registrations (routes/sdk.ts), which name the Application alike.  An    *)
(* object is read, and replaced if it still has the version that was read. *)
(* Argo CD compares, applies and writes the status into the Application;   *)
(* the parameters of a Helm source are left out.                           *)
(***************************************************************************)
EXTENDS Naturals

CONSTANTS
    Deployers,    \* jobs of deployments
    Registrants,  \* SDK registrations
    NoWriter,
    MaxPolls,     \* times the Application is looked at (36)
    EarlyPolls,   \* looks after which pods that still come up will do (6)
    MaxMishaps    \* bound: calls of Kubernetes that fail

Writers == Deployers \cup Registrants

ASSUME ApplicationsAssumption ==
    /\ NoWriter \notin Writers /\ Deployers \cap Registrants = {}
    /\ EarlyPolls \in 1 .. MaxPolls /\ MaxPolls \in Nat /\ MaxMishaps \in Nat

VARIABLES
    app,       \* whose source and revision the Application has, if there is one
    operation, \* whose revision a sync that was asked for applies
    argo,      \* the status in the Application
    looked,    \* Argo CD has compared since the Application was last written
    runs,      \* whose manifests run
    health,    \* how they are
    ingress,   \* the service the Ingress leads to, if there is one
    writer,    \* what each job is about to do, the service it found, its looks, its verdict
    appRead,   \* the jobs that have read the Application as it is now
    ingressRead,
    disturbed, \* history: jobs whose Application somebody else wrote after them
    misled,    \* history: jobs told deployed by a status older than their Application
    mishaps

objects == <<app, operation, argo, looked, runs, health, ingress>>
appsVars == <<objects, writer, appRead, ingressRead, disturbed, misled, mishaps>>

NoStatus == [sync |-> "Unknown", health |-> "Unknown"]
Steps == {"get", "replace", "create", "sync", "discover", "expose", "readIngress", "putIngress", "poll", "ended"}
NamedServices == {"none", "sdk-demo", "found", "named"}

AppsTypeOK ==
    /\ {app, operation, runs} \subseteq Writers \cup {NoWriter} /\ looked \in BOOLEAN
    /\ argo \in [sync : {"Unknown", "OutOfSync", "Synced"}, health : {"Unknown", "Progressing", "Healthy", "Degraded"}]
    /\ health \in {"Unknown", "Progressing", "Healthy", "Degraded"} /\ ingress \in NamedServices
    /\ writer \in [Writers -> [at : Steps, service : NamedServices, looks : 0 .. MaxPolls,
                               verdict : {"none", "refused", "registered", "deployed", "failed", "late"}]]
    /\ {appRead, ingressRead, disturbed, misled} \subseteq SUBSET Writers /\ mishaps \in 0 .. MaxMishaps

\* Some of the jobs may never come.
AppsInit ==
    /\ app = NoWriter /\ operation = NoWriter /\ argo = NoStatus /\ looked = FALSE
    /\ runs = NoWriter /\ health = "Unknown" /\ ingress = "none"
    /\ \E absent \in SUBSET Writers :
          writer = [j \in Writers |-> [at |-> IF j \in absent THEN "ended" ELSE "get",
                                      service |-> "none", looks |-> 0, verdict |-> "none"]]
    /\ appRead = {} /\ ingressRead = {} /\ disturbed = {} /\ misled = {} /\ mishaps = 0

At(j, step) == writer[j].at = step
To(j, step) == writer' = [writer EXCEPT ![j].at = step]
Concludes(j, verdict) == writer' = [writer EXCEPT ![j].at = "ended", ![j].verdict = verdict]
Mishap == mishaps < MaxMishaps /\ mishaps' = mishaps + 1

-----------------------------------------------------------------------------
(* The Application *)

\* Any error of the read counts as: there is none.
GetApplication(j) ==
    /\ At(j, "get")
    /\ \/ /\ To(j, IF app = NoWriter THEN "create" ELSE "replace")
          /\ appRead' = appRead \cup {j} /\ UNCHANGED mishaps
       \/ To(j, "create") /\ Mishap /\ UNCHANGED appRead
    /\ UNCHANGED <<objects, ingressRead, disturbed, misled>>

\* The written Application has no status of its own: the old one stays or is gone, as Kubernetes has it.
Writes(j) ==
    /\ app' = j /\ operation' = NoWriter /\ looked' = FALSE /\ argo' \in {argo, NoStatus}
    /\ appRead' = {} /\ disturbed' = disturbed \cup ({app} \ {NoWriter, j})
    /\ To(j, IF j \in Deployers THEN "sync" ELSE "expose")
    /\ UNCHANGED <<runs, health, ingress>>

Spoiled(step, j) == To(j, step) /\ UNCHANGED <<objects, appRead, disturbed>>
Gives(j) == Concludes(j, "refused") /\ UNCHANGED <<objects, appRead, disturbed>>

\* A conflict, or an error, ends a deployment; a registration then tries to create the Application,
\* and is answered with the error when that fails too.
ReplaceApplication(j) ==
    /\ At(j, "replace")
    /\ \/ j \in appRead /\ Writes(j) /\ UNCHANGED mishaps
       \/ /\ \/ j \notin appRead /\ UNCHANGED mishaps
             \/ Mishap
          /\ IF j \in Deployers THEN Gives(j) ELSE Spoiled("create", j)
    /\ UNCHANGED <<ingressRead, misled>>

CreateApplication(j) ==
    /\ At(j, "create")
    /\ \/ app = NoWriter /\ Writes(j) /\ UNCHANGED mishaps
       \/ app # NoWriter /\ Gives(j) /\ UNCHANGED mishaps
       \/ Gives(j) /\ Mishap
    /\ UNCHANGED <<ingressRead, misled>>

\* The sync is asked for with the job's own revision, whoever wrote the Application last; an error
\* is only logged.
SyncApplication(j) ==
    /\ At(j, "sync") /\ To(j, "discover")
    /\ \/ /\ operation' = j /\ appRead' = {} /\ disturbed' = disturbed \cup ({app} \ {j})
          /\ UNCHANGED mishaps
       \/ Mishap /\ UNCHANGED <<operation, appRead, disturbed>>
    /\ UNCHANGED <<app, argo, looked, runs, health, ingress, ingressRead, misled>>

-----------------------------------------------------------------------------
(* The Ingress *)

\* A service of the namespace by then, sdk-demo if there is none or they cannot be listed.
Discover(j) ==
    /\ At(j, "discover")
    /\ \/ writer' = [writer EXCEPT ![j].at = "expose", ![j].service = IF runs = NoWriter THEN "sdk-demo" ELSE "found"]
          /\ UNCHANGED mishaps
       \/ writer' = [writer EXCEPT ![j].at = "expose", ![j].service = "sdk-demo"] /\ Mishap
    /\ UNCHANGED <<objects, appRead, ingressRead, disturbed, misled>>

ServiceOf(j) == IF j \in Deployers THEN writer[j].service ELSE "named"

\* What becomes of the Ingress changes nothing in the outcome of a deployment or a registration.
Exposed(j) == IF j \in Deployers THEN To(j, "poll") ELSE Concludes(j, "registered")

CreateIngress(j) ==
    /\ At(j, "expose")
    /\ \/ ingress = "none" /\ ingress' = ServiceOf(j) /\ Exposed(j) /\ UNCHANGED mishaps
       \/ ingress # "none" /\ To(j, "readIngress") /\ UNCHANGED <<ingress, mishaps>>
       \/ To(j, "readIngress") /\ Mishap /\ UNCHANGED ingress
    /\ UNCHANGED <<app, operation, argo, looked, runs, health, appRead, ingressRead, disturbed, misled>>
ReadIngress(j) ==
    /\ At(j, "readIngress")
    /\ \/ ingress # "none" /\ To(j, "putIngress") /\ ingressRead' = ingressRead \cup {j} /\ UNCHANGED mishaps
       \/ ingress = "none" /\ Exposed(j) /\ UNCHANGED <<ingressRead, mishaps>>
       \/ Exposed(j) /\ Mishap /\ UNCHANGED ingressRead
    /\ UNCHANGED <<objects, appRead, disturbed, misled>>
PutIngress(j) ==
    /\ At(j, "putIngress") /\ Exposed(j)
    /\ \/ j \in ingressRead /\ ingress' = ServiceOf(j) /\ ingressRead' = {} /\ UNCHANGED mishaps
       \/ j \notin ingressRead /\ UNCHANGED <<ingress, ingressRead, mishaps>>
       \/ Mishap /\ UNCHANGED <<ingress, ingressRead>>
    /\ UNCHANGED <<app, operation, argo, looked, runs, health, appRead, disturbed, misled>>

-----------------------------------------------------------------------------
(* The verdict *)

SyncedAndWell(looks) ==
    /\ argo.sync = "Synced"
    /\ argo.health = "Healthy" \/ (argo.health = "Progressing" /\ looks >= EarlyPolls)

\* The job looks every five seconds; a look that fails counts.  Nothing says that Argo CD has
\* compared since the Application was written: the status may be about what was there before.
Look(j) ==
    LET looks == writer[j].looks + 1
        Verdict(seen) == IF seen /\ SyncedAndWell(looks) THEN "deployed"
                         ELSE IF seen /\ argo.health = "Degraded" THEN "failed"
                         ELSE IF looks = MaxPolls THEN "late" ELSE "none"
        Seen(seen) == writer' = [writer EXCEPT ![j].looks = looks, ![j].verdict = Verdict(seen),
                                 ![j].at = IF Verdict(seen) = "none" THEN "poll" ELSE "ended"]
    IN
    /\ At(j, "poll")
    /\ \/ Seen(TRUE) /\ UNCHANGED mishaps
       \/ Seen(FALSE) /\ Mishap
    /\ misled' = misled \cup (IF writer'[j].verdict = "deployed" /\ ~looked THEN {j} ELSE {})
    /\ UNCHANGED <<objects, appRead, ingressRead, disturbed>>

-----------------------------------------------------------------------------
(* Argo CD *)

Compares ==
    /\ app # NoWriter
    /\ argo' = [sync |-> IF runs = app THEN "Synced" ELSE "OutOfSync", health |-> health]
    /\ looked' = TRUE /\ appRead' = (IF argo' = argo THEN appRead ELSE {})
    /\ UNCHANGED <<app, operation, runs, health, ingress, writer, ingressRead, disturbed, misled, mishaps>>

\* The Application is applied, automatically, or the revision of the sync that was asked for.
Applies ==
    /\ \E j \in {app, operation} \ {NoWriter} :
          /\ runs' = j /\ operation' = (IF j = operation THEN NoWriter ELSE operation)
          /\ <<runs, operation>>' # <<runs, operation>>
    /\ health' = IF runs' = runs THEN health ELSE "Progressing"
    /\ UNCHANGED <<app, argo, looked, ingress, writer, appRead, ingressRead, disturbed, misled, mishaps>>

PodsTurn ==
    /\ runs # NoWriter /\ health' \in {"Healthy", "Degraded"} \ {health}
    /\ UNCHANGED <<app, operation, argo, looked, runs, ingress, writer, appRead, ingressRead, disturbed, misled, mishaps>>

AppsNext ==
    \/ \E j \in Writers :
          \/ GetApplication(j) \/ ReplaceApplication(j) \/ CreateApplication(j) \/ SyncApplication(j)
          \/ Discover(j) \/ CreateIngress(j) \/ ReadIngress(j) \/ PutIngress(j) \/ Look(j)
    \/ Compares \/ Applies \/ PodsTurn

-----------------------------------------------------------------------------
(* Properties *)

\* A deployment that is told deployed runs, and keeps running, until another deployment or a
\* registration writes the Application; unless it was told so by a status that Argo CD wrote
\* before the Application had this deployment's source.
VerdictTrue == \A j \in Deployers \ (disturbed \cup misled) : writer[j].verdict = "deployed" => runs = j

\* The Application of an environment is what its deployments were told it is.
AppsInv == AppsTypeOK /\ VerdictTrue
=============================================================================
