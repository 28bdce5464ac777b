---------------------------- MODULE ProjectPage ----------------------------
(***************************************************************************)
(* The portal's page of a project                                          *)
(* (pages/project-detail/project-detail.component.ts): what it shows and   *)
(* sends while answers to its requests come in any order.  Four parts of   *)
(* it do not touch each other: the form that deploys, the list of          *)
(* deployments with its timer, the versions of a secret, and the logs of a *)
(* pod with a timer of their own.                                          *)
(***************************************************************************)
EXTENDS Naturals, FiniteSets

CONSTANTS
    Branches, \* of the project's repository
    Main,     \* the default branch
    Release,  \* a tag that was released, with its commit
    Secrets,
    Pods,
    Nil,
    MaxAsks,    \* bound: requests of one part in flight
    MaxDeploys  \* bound: deployments that begin

ASSUME ProjectPageAssumption ==
    /\ Main \in Branches /\ Release \notin Branches
    /\ Nil \notin Branches \cup {Release} \cup Secrets \cup Pods
    /\ {MaxAsks, MaxDeploys} \subseteq Nat

VARIABLES
    focus,   \* the part the user works with (bound: one of them)
    loaded,  \* fetchData is through
    left,    \* the user has left the page
    asks,    \* requests in flight
    unsure,  \* history: the user did not wait for an answer, or one was an error
    \* the form
    form,    \* the branch or tag and whose commit it has
    listed,  \* the repository's branches are known
    commits, \* whose commits are offered
    posted,  \* the last POST /deploy: what was clicked, the branch and commit sent, and ~unsure
    linked,  \* the project has a repository
    \* the list
    status,  \* of the last deployment, in the database
    began,   \* deployments so far
    list,    \* its status on the page
    tab,     \* the list's tab is active
    timer,   \* refreshTimer runs
    \* the dialogs
    dialog,  \* the versions: of which secret, whose are shown, whether they are shown
    rolled,  \* the last rollback: the secret, whose version was clicked, and ~unsure
    modal    \* the logs: of which pod, whose are shown, whether they are shown, logPollInterval runs

formVars == <<form, listed, commits, posted, linked>>
listVars == <<status, began, list, tab, timer>>
dialogVars == <<dialog, rolled>>
pageVars == <<focus, loaded, left, asks, unsure, formVars, listVars, dialogVars, modal>>

Refs == Branches \cup {Release}
Ask(kind, of, then) == [kind |-> kind, of |-> of, then |-> then]

\* What is asked, and what the page does once the answer is there.
AskKinds == {"branches", "commits", "list", "versions", "logs"}
Thens == {"nothing", "loaded", "deploy", "release", "start", "unread", "none", "running", "ended"}

ProjectPageTypeOK ==
    /\ focus \in {"form", "list", "secrets", "pods"}
    /\ {loaded, left, unsure, listed, linked, tab, timer} \subseteq BOOLEAN
    /\ asks \subseteq [kind : AskKinds, of : Refs \cup Secrets \cup Pods \cup {Nil}, then : Thens]
    /\ Cardinality(asks) <= MaxAsks
    /\ form \in [branch : Refs \cup {Nil}, commit : Refs \cup {Nil}] /\ commits \in Refs \cup {Nil}
    /\ posted \in [clicked : Refs \cup {Nil}, branch : Refs \cup {Nil}, commit : Refs \cup {Nil}, sure : BOOLEAN]
    /\ {status, list} \subseteq {"none", "running", "ended"} /\ began \in 0 .. MaxDeploys
    /\ dialog \in [of : Secrets \cup {Nil}, shows : Secrets \cup {Nil}, open : BOOLEAN]
    /\ rolled \in [of : Secrets \cup {Nil}, shown : Secrets \cup {Nil}, sure : BOOLEAN]
    /\ modal \in [of : Pods \cup {Nil}, shows : Pods \cup {Nil}, open : BOOLEAN, timer : BOOLEAN]

\* The page has just been opened; the form has been filled, unless no repository is known yet.
PageInit ==
    /\ focus \in {"form", "list", "secrets", "pods"}
    /\ loaded = (focus = "form") /\ left = FALSE /\ asks = {} /\ unsure = FALSE
    /\ linked \in BOOLEAN /\ (focus # "form" => linked)
    /\ listed = linked
    /\ form = IF linked THEN [branch |-> Main, commit |-> Main] ELSE [branch |-> Nil, commit |-> Nil]
    /\ commits = form.commit
    /\ posted = [clicked |-> Nil, branch |-> Nil, commit |-> Nil, sure |-> FALSE]
    /\ status = "none" /\ began = 0 /\ list = "none" /\ tab = TRUE /\ timer = FALSE
    /\ dialog = [of |-> Nil, shows |-> Nil, open |-> FALSE] /\ rolled = [of |-> Nil, shown |-> Nil, sure |-> FALSE]
    /\ modal = [of |-> Nil, shows |-> Nil, open |-> FALSE, timer |-> FALSE]

Sent(new) == asks' = asks \cup new /\ Cardinality(asks') <= MaxAsks

-----------------------------------------------------------------------------
(* The form *)

FormPart == focus = "form" /\ UNCHANGED <<focus, loaded, left, listVars, dialogVars, modal>>

\* onBranchChange: the branch, by the select or typed where no branches are known, brings its tip
\* if that is known, and asks for its commits.
ChooseBranch ==
    /\ FormPart /\ unsure' = (asks # {})
    /\ \E b \in Branches :
          /\ form' = [branch |-> b, commit |-> IF listed THEN b ELSE form.commit]
          /\ Sent({Ask("commits", b, "nothing")})
    /\ UNCHANGED <<listed, commits, posted, linked>>

ChooseCommit ==
    /\ FormPart /\ unsure' = (unsure \/ asks # {})
    /\ commits # Nil /\ form' = [form EXCEPT !.commit = commits]
    /\ UNCHANGED <<asks, listed, commits, posted, linked>>

\* deployRelease, up to the answer about the tag's commits; a tag is no branch whose tip is known.
DeployRelease ==
    /\ FormPart /\ listed /\ unsure' = (asks # {})
    /\ form' = [branch |-> Release, commit |-> Release]
    /\ Sent({Ask("commits", Release, "release")})
    /\ UNCHANGED <<listed, commits, posted, linked>>

\* The rest of deploy: what the form holds by then is sent (bound: and answered at once).
Posts(clicked, f) ==
    posted' = [clicked |-> clicked, branch |-> f.branch, commit |-> f.commit, sure |-> ~unsure']

\* loadGitInfo empties what it will fill, and asks for the branches.
LoadGit(clicked, then) ==
    /\ listed' = FALSE /\ commits' = Nil /\ linked' = TRUE
    /\ Sent({Ask("branches", clicked, then)})

GitLoading == \E a \in asks : a.kind = "branches" \/ a.then \in {"loaded", "deploy"}

\* deploy saves the settings first when the project has no repository yet; if that fails it goes on.
Deploy ==
    /\ FormPart /\ ~GitLoading /\ form.branch # Nil /\ unsure' = (unsure \/ asks # {})
    /\ UNCHANGED form
    /\ \/ linked /\ Posts(form.branch, form) /\ UNCHANGED <<asks, listed, commits, linked>>
       \/ ~linked /\ LoadGit(form.branch, "deploy") /\ UNCHANGED posted
       \/ ~linked /\ Posts(form.branch, form) /\ UNCHANGED <<asks, listed, commits, linked>>

\* Bound: the settings name a repository.
SaveProjectSettings ==
    /\ FormPart /\ unsure' = (unsure \/ asks # {})
    /\ LoadGit(Nil, "loaded")
    /\ UNCHANGED <<form, posted>>

\* The branches are there: the default branch, or what was there if they are not.
Branched(a) ==
    /\ FormPart /\ a.kind = "branches"
    /\ \/ /\ listed' = TRUE /\ form' = [branch |-> Main, commit |-> Main]
          /\ asks' = (asks \ {a}) \cup {Ask("commits", Main, a.then)}
          /\ unsure' = (unsure \/ a.of \notin {Main, Nil}) \* the branch that was clicked is lost
          /\ UNCHANGED posted
       \/ /\ form' = [form EXCEPT !.branch = IF @ = Nil THEN Main ELSE @]
          /\ asks' = asks \ {a} /\ UNCHANGED listed /\ unsure' = TRUE
          /\ IF a.then = "deploy" THEN Posts(a.of, form') ELSE UNCHANGED posted
    /\ UNCHANGED <<commits, linked>>

\* The commits are there, and the newest is taken, whichever branch is chosen by now; or they are
\* not, and the form keeps the commit it has.  deployRelease then takes its own commit and deploys.
Committed(a) ==
    /\ FormPart /\ a.kind = "commits"
    /\ asks' = asks \ {a}
    /\ \E answered \in BOOLEAN :
          /\ commits' = IF answered THEN a.of ELSE Nil
          /\ form' = IF answered \/ a.then = "release" THEN [form EXCEPT !.commit = a.of] ELSE form
          /\ unsure' = (unsure \/ (~answered /\ form.commit \notin {a.of, Nil}))
    /\ IF a.then \in {"deploy", "release"} THEN Posts(a.of, form') ELSE UNCHANGED posted
    /\ UNCHANGED <<listed, linked>>

FormNext ==
    \/ ChooseBranch \/ ChooseCommit \/ DeployRelease \/ Deploy \/ SaveProjectSettings
    \/ \E a \in asks : Branched(a) \/ Committed(a)

-----------------------------------------------------------------------------
(* The list of deployments *)

ListPart == focus = "list" /\ UNCHANGED <<focus, unsure, formVars, dialogVars, modal>>
AskList == Ask("list", Nil, "unread")

\* fetchData ends with its timer being set, even if the user has left meanwhile.
PageLoaded ==
    /\ ListPart /\ ~loaded
    /\ loaded' = TRUE /\ list' = status /\ timer' = TRUE
    /\ UNCHANGED <<left, asks, status, began, tab>>

\* A deployment begins, by this page, which then loads its list and shows it, or by somebody else.
DeployBegins ==
    /\ ListPart /\ status # "running" /\ began < MaxDeploys
    /\ status' = "running" /\ began' = began + 1
    /\ \/ ~left /\ Sent({AskList}) /\ tab' = TRUE
       \/ UNCHANGED <<asks, tab>>
    /\ UNCHANGED <<loaded, left, list, timer>>
Finishes ==
    /\ ListPart /\ status = "running" /\ status' = "ended"
    /\ UNCHANGED <<loaded, left, asks, began, list, tab, timer>>

SwitchTab ==
    /\ ListPart /\ ~left /\ tab' = ~tab
    /\ IF tab' THEN Sent({AskList}) ELSE UNCHANGED asks
    /\ UNCHANGED <<loaded, left, status, began, list, timer>>

\* Mutant: only the tab of the list is refreshed.
WantsTab == tab

\* hasInFlightDeploy: a list that shows a deployment in progress is refreshed under any tab.
Wants == tab \/ list = "running"

PollData ==
    /\ ListPart /\ timer /\ Wants /\ Sent({AskList}) /\ asks' # asks
    /\ UNCHANGED <<loaded, left, listVars>>

\* The API reads the rows; later the page shows what it read, whatever it shows by then.
ReadList(a) ==
    /\ ListPart /\ a = AskList
    /\ asks' = (asks \ {a}) \cup {[a EXCEPT !.then = status]}
    /\ UNCHANGED <<loaded, left, listVars>>
ShowList(a) ==
    /\ ListPart /\ a.kind = "list" /\ a.then # "unread"
    /\ list' = a.then /\ asks' = asks \ {a}
    /\ UNCHANGED <<loaded, left, status, began, tab, timer>>

ListNext ==
    \/ PageLoaded \/ DeployBegins \/ Finishes \/ SwitchTab \/ PollData
    \/ \E a \in asks : ReadList(a) \/ ShowList(a)

-----------------------------------------------------------------------------
(* The versions of a secret *)

DialogPart == focus = "secrets" /\ UNCHANGED <<focus, loaded, left, formVars, listVars, modal>>

ShowVersions ==
    /\ DialogPart /\ ~dialog.open
    /\ \E s \in Secrets :
          dialog' = [dialog EXCEPT !.of = s] /\ Sent({Ask("versions", s, "nothing")})
    /\ unsure' = (asks # {})
    /\ UNCHANGED rolled
VersionsShown(a) ==
    /\ DialogPart /\ a.kind = "versions" /\ asks' = asks \ {a}
    /\ dialog' = [dialog EXCEPT !.shows = a.of, !.open = TRUE]
    /\ UNCHANGED <<rolled, unsure>>
VersionsFailed(a) ==
    /\ DialogPart /\ a.kind = "versions" /\ asks' = asks \ {a}
    /\ UNCHANGED <<dialog, rolled, unsure>>
CloseVersions ==
    /\ DialogPart /\ dialog.open
    /\ dialog' = [dialog EXCEPT !.open = FALSE]
    /\ UNCHANGED <<asks, rolled, unsure>>
RollbackToVersion ==
    /\ DialogPart /\ dialog.open
    /\ rolled' = [of |-> dialog.of, shown |-> dialog.shows, sure |-> ~unsure]
    /\ \E ok \in BOOLEAN : dialog' = [dialog EXCEPT !.open = ~ok]
    /\ UNCHANGED <<asks, unsure>>

DialogNext ==
    \/ ShowVersions \/ CloseVersions \/ RollbackToVersion
    \/ \E a \in asks : VersionsShown(a) \/ VersionsFailed(a)

-----------------------------------------------------------------------------
(* The logs of a pod *)

ModalPart == focus = "pods" /\ UNCHANGED <<focus, loaded, formVars, listVars, dialogVars>>

OpenPodLogs ==
    /\ ModalPart /\ ~left /\ ~modal.open
    /\ \E p \in Pods :
          /\ modal' = [modal EXCEPT !.of = p, !.shows = Nil, !.open = TRUE]
          /\ Sent({Ask("logs", p, "start")})
    /\ UNCHANGED <<left, unsure>>
LogPoll ==
    /\ ModalPart /\ modal.timer
    /\ Sent({Ask("logs", modal.of, "nothing")}) /\ asks' # asks
    /\ UNCHANGED <<left, unsure, modal>>
\* The logs, or the error in their place; openPodLogs then starts the timer, also of a closed modal.
LogsShown(a) ==
    /\ ModalPart /\ a.kind = "logs" /\ asks' = asks \ {a}
    /\ modal' = [modal EXCEPT !.shows = a.of, !.timer = @ \/ a.then = "start"]
    /\ UNCHANGED <<left, unsure>>

Starting == \E a \in asks : a.then = "start"

\* Mutant: the timer is left to the page's end.
CloseLogsOnly ==
    /\ ModalPart /\ modal.open
    /\ modal' = [modal EXCEPT !.open = FALSE]
    /\ unsure' = (unsure \/ Starting)
    /\ UNCHANGED <<left, asks>>

CloseLogs ==
    /\ ModalPart /\ modal.open
    /\ modal' = [modal EXCEPT !.open = FALSE, !.timer = FALSE]
    /\ unsure' = (unsure \/ Starting)
    /\ UNCHANGED <<left, asks>>

ModalNext == OpenPodLogs \/ LogPoll \/ CloseLogs \/ \E a \in asks : LogsShown(a)

-----------------------------------------------------------------------------
\* ngOnDestroy, which stops the timers that run by then.
Leave ==
    /\ focus \in {"list", "pods"} /\ ~left /\ left' = TRUE
    /\ timer' = FALSE /\ modal' = [modal EXCEPT !.open = FALSE, !.timer = FALSE]
    /\ unsure' = (unsure \/ (focus = "list" /\ ~loaded) \/ Starting)
    /\ UNCHANGED <<focus, loaded, asks, formVars, status, began, list, tab, dialogVars>>

PageNext == FormNext \/ ListNext \/ DialogNext \/ ModalNext \/ Leave

\* The page is loaded, requests are answered, timers fire.
PageFairness ==
    /\ WF_pageVars(PageLoaded) /\ WF_pageVars(PollData) /\ WF_pageVars(LogPoll)
    /\ WF_pageVars(\E a \in asks : ReadList(a)) /\ WF_pageVars(\E a \in asks : ShowList(a))
    /\ WF_pageVars(\E a \in asks : LogsShown(a))

-----------------------------------------------------------------------------
(* Properties *)

\* What POST /deploy is sent is what was clicked, a branch or tag with a commit of its own - if the
\* user waited for every answer and none was an error.
PostedAsClicked ==
    posted.sure =>
        posted.branch = posted.clicked /\ posted.commit \in {Nil, posted.clicked}

\* A rollback is of the secret whose versions are shown, if they were asked for one at a time.
RolledAsShown == rolled.sure => rolled.of = rolled.shown

\* The modal that is closed, and the page that was left, poll no more - unless that was before the
\* first answer, which starts the timer.
NothingPolls ==
    ~unsure => /\ modal.timer => modal.open
               /\ timer \/ modal.timer => ~left

\* The page sends what it shows and stops when it is left, for a user who waits for its answers.
PageInv == ProjectPageTypeOK /\ PostedAsClicked /\ RolledAsShown /\ NothingPolls

\* A deployment that has ended is not shown in progress for ever, whatever tab is active and
\* however the answers overtake each other.
ListSettles ==
    status = "ended" /\ timer ~> list # "running" \/ status # "ended" \/ left

\* The logs that are shown become those of the pod that was chosen, also after late answers.
LogsFollow ==
    \A p \in Pods :
        modal.open /\ modal.of = p ~> modal.shows = p \/ ~modal.open \/ modal.of # p

\* The page catches up with what it asked for.
PageCatchesUp == ListSettles /\ LogsFollow
=============================================================================
