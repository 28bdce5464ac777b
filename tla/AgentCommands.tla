--------------------------- MODULE AgentCommands ----------------------------
(***************************************************************************)
(* Destructive agent commands and their human approval                     *)
(* (platform/api/src/routes/agent-commands.ts).  Agents validate and       *)
(* execute commands, humans approve or reject the pending approvals.  Each *)
(* request finds a row, decides on it, and saves it; every await ends an   *)
(* action, so requests interleave between the three.  Read-only and        *)
(* mutating commands need no approval and are left out: the rows they      *)
(* insert as "executed" are read by no handler.                            *)
(***************************************************************************)
EXTENDS Naturals, Sequences, FiniteSets, EntitySave

CONSTANTS
    Validators,  \* slots for POST /agent/commands/validate requests in flight
    Executors,   \* slots for POST /agent/commands/execute requests in flight
    Humans,      \* slots for approve and reject requests in flight
    Commands,    \* destructive commands
    TTL,         \* APPROVAL_TTL_MS, in ticks of the clock
    SaveMayFail, \* whether the save after a run may be lost: database down, API killed
    MaxRows,     \* bound: approvals created in a behaviour
    MaxTime,     \* bound: ticks of the clock
    MaxRuns      \* bound: commands run in a behaviour

ASSUME CommandsAssumption ==
    /\ Validators \cap Executors = {} /\ Validators \cap Humans = {} /\ Executors \cap Humans = {}
    /\ Commands # {}
    /\ TTL \in Nat \ {0} /\ MaxRows \in Nat /\ MaxTime \in Nat /\ MaxRuns \in Nat
    /\ SaveMayFail \in BOOLEAN

VARIABLES
    rows,     \* the table agent_command_approvals; an approval's id is its position
    now,      \* Date.now()
    stage,    \* where each request is
    req,      \* the command and approval id of each request
    entity,   \* the entity each request has loaded and changed
    selected, \* what save selected again before its UPDATE
    log       \* history: the commands run, the saves lost, the decisions saved, in their order

vars == <<rows, now, stage, req, entity, selected, log>>

Requests == Validators \cup Executors \cup Humans
Stages == {"idle", "create", "check", "decide", "run", "save", "update"}
Statuses == {"pending", "approved", "rejected", "executed", "expired"}
Row == [command : Commands, status : Statuses, approvedBy : BOOLEAN, rejectedBy : BOOLEAN,
        expiresAt : Nat]
Entry == [event : {"run", "lost", "approved", "rejected"}, id : Nat, command : Commands, at : Nat]
Blank == [command |-> CHOOSE c \in Commands : TRUE, status |-> "pending", approvedBy |-> FALSE,
          rejectedBy |-> FALSE, expiresAt |-> 0]

TypeOK ==
    /\ rows \in Seq(Row)
    /\ now \in Nat
    /\ stage \in [Requests -> Stages]
    /\ req \in [Requests -> [command : Commands, id : Nat]]
    /\ entity \in [Requests -> Row]
    /\ selected \in [Requests -> Row]
    /\ log \in Seq(Entry)

Init ==
    /\ rows = << >>
    /\ now = 0
    /\ stage = [t \in Requests |-> "idle"]
    /\ req = [t \in Requests |-> [command |-> Blank.command, id |-> 0]]
    /\ entity = [t \in Requests |-> Blank]
    /\ selected = [t \in Requests |-> Blank]
    /\ log = << >>

Ids == 1 .. Len(rows)
Go(t, st) == stage' = [stage EXCEPT ![t] = st]

\* The request is answered; its variables are gone.
Answer(t) ==
    /\ Go(t, "idle")
    /\ req' = [req EXCEPT ![t] = [command |-> Blank.command, id |-> 0]]
    /\ entity' = [entity EXCEPT ![t] = Blank]
    /\ selected' = [selected EXCEPT ![t] = Blank]

Log(t, event) ==
    log' = Append(log, [event |-> event, id |-> req[t].id, command |-> req[t].command, at |-> now])

\* findOne: the request holds a copy of the row.
Find(t, c, id, st) ==
    /\ stage[t] = "idle"
    /\ req' = [req EXCEPT ![t] = [command |-> c, id |-> id]]
    /\ entity' = [entity EXCEPT ![t] = rows[id]]
    /\ Go(t, st)
    /\ UNCHANGED <<rows, now, selected, log>>

\* The handler changes its copy and calls save, whose first statement selects the row again.
Save(t, changed) ==
    /\ entity' = [entity EXCEPT ![t] = changed]
    /\ selected' = [selected EXCEPT ![t] = rows[req[t].id]]
    /\ Go(t, "update")
    /\ UNCHANGED req

\* The UPDATE of save.
Updated(t) ==
    rows' = [rows EXCEPT ![req[t].id] = Saved(@, selected[t], entity[t])]

-----------------------------------------------------------------------------
(* validate *)

Pending(c) == {id \in Ids : rows[id].command = c /\ rows[id].status = "pending"}

\* An existing pending approval for the command is answered; otherwise one is created.
Validate(t, c) ==
    /\ stage[t] = "idle"
    /\ Pending(c) = {}
    /\ req' = [req EXCEPT ![t].command = c]
    /\ Go(t, "create")
    /\ UNCHANGED <<rows, now, entity, selected, log>>

Create(t) ==
    /\ stage[t] = "create"
    /\ Len(rows) < MaxRows
    /\ rows' = Append(rows, [Blank EXCEPT !.command = req[t].command, !.expiresAt = now + TTL])
    /\ Answer(t)
    /\ UNCHANGED <<now, log>>

-----------------------------------------------------------------------------
(* execute *)

\* The agent names a command and an approval.
Execute(t, c, id) == Find(t, c, id, "check")

\* Mutant: an approval expires a TTL late.
ExpiredLate(row) == row.expiresAt + TTL < now

Expired(row) == row.expiresAt < now
Runs == Cardinality({i \in DOMAIN log : log[i].event = "run"})

\* An approval that is not approved, or for another command, is refused.  An expired one is
\* saved as such.  Otherwise the command starts at once.
Check(t) ==
    LET row == entity[t] IN
    /\ stage[t] = "check"
    /\ \/ /\ row.status # "approved" \/ row.command # req[t].command
          /\ Answer(t)
          /\ UNCHANGED log
       \/ /\ row.status = "approved" /\ row.command = req[t].command
          /\ Expired(row)
          /\ Save(t, [row EXCEPT !.status = "expired"])
          /\ UNCHANGED log
       \/ /\ row.status = "approved" /\ row.command = req[t].command
          /\ ~Expired(row)
          /\ Runs < MaxRuns
          /\ Log(t, "run")
          /\ Go(t, "run")
          /\ UNCHANGED <<req, entity, selected>>
    /\ UNCHANGED <<rows, now>>

\* The command has finished: the approval is saved as executed.
Finish(t) ==
    /\ stage[t] = "run"
    /\ Save(t, [entity[t] EXCEPT !.status = "executed"])
    /\ UNCHANGED <<rows, now, log>>

ExecuteSaved(t) ==
    /\ stage[t] = "update"
    /\ Updated(t)
    /\ Answer(t)
    /\ UNCHANGED <<now, log>>

-----------------------------------------------------------------------------
(* approve and reject *)

Decide(h, id) == Find(h, rows[id].command, id, "decide")

\* Mutant: an approval in any status can be approved.
ApproveAny(h) ==
    /\ stage[h] = "decide"
    /\ Save(h, [entity[h] EXCEPT !.status = "approved", !.approvedBy = TRUE, !.expiresAt = now + TTL])
    /\ UNCHANGED <<rows, now, log>>

\* Only a pending approval is decided.
Approve(h) ==
    /\ stage[h] = "decide"
    /\ entity[h].status = "pending"
    /\ Save(h, [entity[h] EXCEPT !.status = "approved", !.approvedBy = TRUE, !.expiresAt = now + TTL])
    /\ UNCHANGED <<rows, now, log>>

Reject(h) ==
    /\ stage[h] = "decide"
    /\ entity[h].status = "pending"
    /\ Save(h, [entity[h] EXCEPT !.status = "rejected", !.rejectedBy = TRUE])
    /\ UNCHANGED <<rows, now, log>>

Conflict(h) ==
    /\ stage[h] = "decide"
    /\ entity[h].status # "pending"
    /\ Answer(h)
    /\ UNCHANGED <<rows, now, log>>

DecisionSaved(h) ==
    /\ stage[h] = "update"
    /\ Updated(h)
    /\ Log(h, entity[h].status)
    /\ Answer(h)
    /\ UNCHANGED now

\* A command has run and its approval is not yet saved as executed.
AfterRun(t) ==
    stage[t] = "run" \/ (stage[t] = "update" /\ entity[t].status = "executed")

\* A save, or what follows a run, does not happen: the database is gone, or the API.
SaveLost(t) ==
    /\ SaveMayFail
    /\ stage[t] \in {"create", "run", "update"}
    /\ IF AfterRun(t) THEN Log(t, "lost") ELSE UNCHANGED log
    /\ Answer(t)
    /\ UNCHANGED <<rows, now>>

-----------------------------------------------------------------------------
Tick ==
    /\ now < MaxTime
    /\ now' = now + 1
    /\ UNCHANGED <<rows, stage, req, entity, selected, log>>

Next ==
    \/ \E t \in Validators : Create(t) \/ \E c \in Commands : Validate(t, c)
    \/ \E t \in Executors :
          \/ \E c \in Commands, id \in Ids : Execute(t, c, id)
          \/ Check(t) \/ Finish(t) \/ ExecuteSaved(t)
    \/ \E h \in Humans :
          \/ \E id \in Ids : Decide(h, id)
          \/ Approve(h) \/ Reject(h) \/ Conflict(h) \/ DecisionSaved(h)
    \/ \E t \in Requests : SaveLost(t)
    \/ Tick

Spec == Init /\ [][Next]_vars

-----------------------------------------------------------------------------
(* Properties *)

\* Whatever requests overlap and whatever saves are lost, a destructive command runs only when
\* a human approved it, under this approval and not longer than the TTL before.
ApprovedRun ==
    \A j \in DOMAIN log : log[j].event = "run" =>
        \E i \in 1 .. j - 1 :
            /\ log[i].event = "approved" /\ log[i].id = log[j].id
            /\ log[i].command = log[j].command
            /\ log[j].at <= log[i].at + TTL

\* A human who was told that the command is rejected can rely on it ("Cannot approve approval
\* in status rejected"): it does not run afterwards.
RejectedNeverRuns ==
    \A i, j \in DOMAIN log :
        i < j /\ log[i].event = "rejected" /\ log[j].event = "run" => log[i].id # log[j].id

\* validate "create[s] or reuse[s] a pending approval": a command has at most one.
OnePendingPerCommand == \A c \in Commands : Cardinality(Pending(c)) <= 1

\* An approval is used up by the run it allowed ("Approval status is executed; expected
\* approved"): requests that do not overlap run it again only after the save of the first run
\* was lost.
RunsOnce ==
    \A i, j \in DOMAIN log :
        i < j /\ log[i].event = "run" /\ log[j].event = "run" /\ log[i].id = log[j].id =>
            \E k \in i .. j : log[k].event = "lost" /\ log[k].id = log[i].id

-----------------------------------------------------------------------------
(* The inductive invariant behind ApprovedRun, for any number of overlapping requests *)

\* History l says that a human approved command c under approval id, at most TTL before e.
Approved(l, id, c, e) ==
    \E i \in DOMAIN l :
        /\ l[i].event = "approved" /\ l[i].id = id /\ l[i].command = c
        /\ e <= l[i].at + TTL

\* Expiry e is not later than any approval of id in history l allows.
NotExtending(l, id, e) ==
    \A i \in DOMAIN l : l[i].event = "approved" /\ l[i].id = id => e <= l[i].at + TTL

RowsInv ==
    /\ \A id \in Ids :
         /\ rows[id].expiresAt <= now + TTL
         /\ rows[id].status = "approved" => Approved(log, id, rows[id].command, rows[id].expiresAt)
    /\ \A i \in DOMAIN log :
         /\ log[i].id \in Ids
         /\ log[i].event \in {"approved", "rejected"} => rows[log[i].id].status # "pending"

\* Every copy is of one row; once the row is decided no copy can make it pending again.
CopyInv(t) ==
    LET id == req[t].id IN
    stage[t] \in {"check", "decide", "run", "update"} =>
        /\ id \in Ids
        /\ entity[t].command = rows[id].command
        /\ entity[t].expiresAt <= now + TTL
        /\ stage[t] = "update" =>
             /\ selected[t].command = rows[id].command
             /\ selected[t].status # "pending" => rows[id].status # "pending"

ExecutorInv(t) ==
    /\ stage[t] \in {"idle", "check", "run", "update"}
    /\ stage[t] = "update" => entity[t].status \in {"expired", "executed"}
    /\ \/ stage[t] \in {"run", "update"}
       \/ stage[t] = "check" /\ entity[t].status = "approved"
       => Approved(log, req[t].id, entity[t].command, entity[t].expiresAt)

HumanInv(h) ==
    /\ stage[h] \in {"idle", "decide", "update"}
    /\ stage[h] # "idle" => req[h].command = entity[h].command
    /\ stage[h] = "update" => entity[h].status \in {"approved", "rejected"}
    /\ \/ stage[h] = "decide" /\ entity[h].status = "pending"
       \/ stage[h] = "update" /\ entity[h].status = "rejected"
       => NotExtending(log, req[h].id, entity[h].expiresAt)

ApprovalInv ==
    /\ RowsInv
    /\ \A t \in Requests : CopyInv(t)
    /\ \A t \in Validators : stage[t] \in {"idle", "create"}
    /\ \A t \in Executors : ExecutorInv(t)
    /\ \A h \in Humans : HumanInv(h)

\* What a decision settles stays settled, for validations, executions and decisions one at a time each:
\* a rejected command does not run, an approved one runs once, and a command waits for one decision.
DecisionsStand == RejectedNeverRuns /\ RunsOnce /\ OnePendingPerCommand
=============================================================================
