---------------------------- MODULE AgentsProofs ----------------------------
(***************************************************************************)
(* Proofs about agents: the approvals of their destructive commands        *)
(* (AgentCommands), the row of an agent's token (AgentTokens), what runs   *)
(* of a command (CommandGuard) and the credentials of the MCP server       *)
(* (McpSession), and the four together (MCAgents).                         *)
(***************************************************************************)
EXTENDS MCAgents, SequenceTheorems, WellFoundedInduction, FiniteSetTheorems, TLAPS

-----------------------------------------------------------------------------
(* Rows, and what save writes *)

Columns == {"command", "status", "approvedBy", "rejectedBy", "expiresAt"}

\* What save writes is a row again, column by column the entity's or the row's.
LEMMA SavedColumns ==
    ASSUME NEW r \in Row, NEW sel \in Row, NEW e \in Row
    PROVE  /\ Saved(r, sel, e) \in Row
           /\ \A c \in Columns : Saved(r, sel, e)[c] = IF e[c] # sel[c] THEN e[c] ELSE r[c]
<1>1. DOMAIN r = Columns
  BY DEF Row, Columns
<1>2. Saved(r, sel, e) = [c \in Columns |-> IF e[c] # sel[c] THEN e[c] ELSE r[c]]
  BY <1>1 DEF Saved
<1>3. Saved(r, sel, e) \in Row
  BY <1>2 DEF Row, Columns
<1> QED
  BY <1>2, <1>3

LEMMA BlankIsRow == Blank \in Row /\ Blank.status = "pending"
<1>1. (CHOOSE c \in Commands : TRUE) \in Commands
  <2>1. \E c \in Commands : TRUE
    BY CommandsAssumption
  <2> QED
    BY <2>1
<1>2. \A c \in Commands :
        [command |-> c, status |-> "pending", approvedBy |-> FALSE, rejectedBy |-> FALSE,
         expiresAt |-> 0] \in Row
  BY DEF Row, Statuses
<1>3. ASSUME NEW c \in Commands
      PROVE  [command |-> c, status |-> "pending", approvedBy |-> FALSE, rejectedBy |-> FALSE,
              expiresAt |-> 0].status = "pending"
  OBVIOUS
<1> QED
  BY <1>1, <1>2, <1>3, Zenon DEF Blank

LEMMA RowOf ==
    ASSUME TypeOK, NEW id \in Ids
    PROVE  rows[id] \in Row /\ rows[id].command \in Commands /\ rows[id].expiresAt \in Nat
<1>1. rows[id] \in Row
  BY DEF TypeOK, Ids
<1> QED
  BY <1>1 DEF Row

-----------------------------------------------------------------------------
(* Histories only grow *)

LEMMA ApprovedGrows ==
    ASSUME NEW l \in Seq(Entry), NEW en \in Entry, NEW id, NEW c, NEW e, Approved(l, id, c, e)
    PROVE  Approved(Append(l, en), id, c, e)
<1>1. PICK i \in DOMAIN l : /\ l[i].event = "approved" /\ l[i].id = id /\ l[i].command = c
                            /\ e <= l[i].at + TTL
  BY DEF Approved
<1>2. i \in DOMAIN Append(l, en) /\ Append(l, en)[i] = l[i]
  OBVIOUS
<1> QED
  BY <1>1, <1>2 DEF Approved

LEMMA ApprovedNow ==
    ASSUME NEW l \in Seq(Entry), NEW en \in Entry, NEW e, en.event = "approved", e <= en.at + TTL
    PROVE  Approved(Append(l, en), en.id, en.command, e)
<1>1. Len(l) + 1 \in DOMAIN Append(l, en) /\ Append(l, en)[Len(l) + 1] = en
  OBVIOUS
<1> QED
  BY <1>1 DEF Approved

LEMMA NotExtendingGrows ==
    ASSUME NEW l \in Seq(Entry), NEW en \in Entry, NEW id, NEW e, NotExtending(l, id, e),
           en.event # "approved" \/ e <= en.at + TTL
    PROVE  NotExtending(Append(l, en), id, e)
<1>1. \A i \in DOMAIN Append(l, en) :
        (i \in DOMAIN l /\ Append(l, en)[i] = l[i]) \/ Append(l, en)[i] = en
  OBVIOUS
<1> QED
  BY <1>1 DEF NotExtending

\* A copy whose expiry extends no approval satisfies whatever approval there is.
LEMMA NotExtendingApproved ==
    ASSUME NEW l \in Seq(Entry), NEW id, NEW c, NEW x, NEW e,
           NotExtending(l, id, e), Approved(l, id, c, x)
    PROVE  Approved(l, id, c, e)
BY DEF NotExtending, Approved

IndInv == TypeOK /\ ApprovalInv

-----------------------------------------------------------------------------
(* The effects the actions are made of *)

\* A step that logs nothing, or a run or a lost save.
QuietLog ==
    \/ UNCHANGED log
    \/ \E en \in Entry : en.event \in {"run", "lost"} /\ en.id \in Ids /\ log' = Append(log, en)

LEMMA QuietLogKeeps ==
    ASSUME IndInv, QuietLog, UNCHANGED rows
    PROVE  /\ log' \in Seq(Entry)
           /\ \A id, c, e : Approved(log, id, c, e) => Approved(log', id, c, e)
           /\ \A id, e : NotExtending(log, id, e) => NotExtending(log', id, e)
           /\ \A i \in DOMAIN log' :
                /\ log'[i].id \in Ids
                /\ log'[i].event \in {"approved", "rejected"} => rows[log'[i].id].status # "pending"
<1>0. log \in Seq(Entry)
  BY DEF IndInv, TypeOK
<1>1. CASE UNCHANGED log
  BY <1>0, <1>1 DEF IndInv, ApprovalInv, RowsInv, Ids
<1>2. CASE \E en \in Entry : en.event \in {"run", "lost"} /\ en.id \in Ids /\ log' = Append(log, en)
  <2>1. PICK en \in Entry : en.event \in {"run", "lost"} /\ en.id \in Ids /\ log' = Append(log, en)
    BY <1>2
  <2>2. log' \in Seq(Entry)
    BY <1>0, <2>1
  <2>3. \A i \in DOMAIN log' : (i \in DOMAIN log /\ log'[i] = log[i]) \/ log'[i] = en
    BY <1>0, <2>1
  <2>4. \A id, c, e : Approved(log, id, c, e) => Approved(log', id, c, e)
    BY <1>0, <2>1, ApprovedGrows
  <2>5. \A id, e : NotExtending(log, id, e) => NotExtending(log', id, e)
    BY <1>0, <2>1, NotExtendingGrows
  <2>6. \A i \in DOMAIN log' :
          /\ log'[i].id \in Ids
          /\ log'[i].event \in {"approved", "rejected"} => rows[log'[i].id].status # "pending"
    BY <2>1, <2>3 DEF IndInv, ApprovalInv, RowsInv
  <2> QED
    BY <2>2, <2>4, <2>5, <2>6
<1> QED
  BY <1>1, <1>2 DEF QuietLog

\* The requests but t hold what they held.
OthersKeep(t) ==
    \A u \in Requests : u # t =>
        /\ stage'[u] = stage[u] /\ req'[u] = req[u]
        /\ entity'[u] = entity[u] /\ selected'[u] = selected[u]

\* A request t moves on while the rows and the clock stay: what it holds afterwards decides.
LEMMA MoveKeeps ==
    ASSUME IndInv, NEW t \in Requests, OthersKeep(t), QuietLog, UNCHANGED <<rows, now>>, TypeOK',
           CopyInv(t)', t \in Validators => stage'[t] \in {"idle", "create"},
           t \in Executors => ExecutorInv(t)', t \in Humans => HumanInv(t)'
    PROVE  IndInv'
<1>1. RowsInv'
  BY QuietLogKeeps DEF IndInv, ApprovalInv, RowsInv, Ids
<1>2. ASSUME NEW u \in Requests PROVE CopyInv(u)'
  BY DEF IndInv, ApprovalInv, CopyInv, OthersKeep, Ids
<1>3. ASSUME NEW u \in Executors PROVE ExecutorInv(u)'
  <2>1. CASE u = t
    BY <2>1
  <2>2. CASE u # t
    <3>1. u \in Requests /\ ExecutorInv(u)
      BY DEF Requests, IndInv, ApprovalInv
    <3>2. stage'[u] = stage[u] /\ req'[u] = req[u] /\ entity'[u] = entity[u]
      BY <2>2, <3>1 DEF OthersKeep
    <3> QED
      BY <3>1, <3>2, QuietLogKeeps DEF ExecutorInv
  <2> QED
    BY <2>1, <2>2
<1>4. ASSUME NEW u \in Humans PROVE HumanInv(u)'
  <2>1. CASE u = t
    BY <2>1
  <2>2. CASE u # t
    <3>1. u \in Requests /\ HumanInv(u)
      BY DEF Requests, IndInv, ApprovalInv
    <3>2. stage'[u] = stage[u] /\ req'[u] = req[u] /\ entity'[u] = entity[u]
      BY <2>2, <3>1 DEF OthersKeep
    <3> QED
      BY <3>1, <3>2, QuietLogKeeps DEF HumanInv
  <2> QED
    BY <2>1, <2>2
<1>5. \A u \in Validators : stage'[u] \in {"idle", "create"}
  BY DEF IndInv, ApprovalInv, OthersKeep, Requests
<1> QED
  BY <1>1, <1>2, <1>3, <1>4, <1>5 DEF IndInv, ApprovalInv

LEMMA AnswerFacts ==
    ASSUME TypeOK, NEW t \in Requests, Answer(t)
    PROVE  /\ OthersKeep(t) /\ stage'[t] = "idle"
           /\ stage' \in [Requests -> Stages]
           /\ req' \in [Requests -> [command : Commands, id : Nat]]
           /\ entity' \in [Requests -> Row] /\ selected' \in [Requests -> Row]
<1>1. [command |-> Blank.command, id |-> 0] \in [command : Commands, id : Nat]
  BY BlankIsRow DEF Row
<1> QED
  BY <1>1, BlankIsRow DEF TypeOK, Answer, Go, OthersKeep, Stages

LEMMA AnswerKeeps ==
    ASSUME IndInv, NEW t \in Requests, Answer(t), QuietLog, UNCHANGED <<rows, now>>
    PROVE  IndInv'
<1>1. TypeOK'
  BY AnswerFacts, QuietLogKeeps DEF IndInv, TypeOK
<1>2. CopyInv(t)' /\ ExecutorInv(t)' /\ HumanInv(t)'
  BY AnswerFacts DEF IndInv, CopyInv, ExecutorInv, HumanInv
<1> QED
  BY <1>1, <1>2, AnswerFacts, MoveKeeps DEF IndInv

\* findOne: the copy of a row.
LEMMA FindKeeps ==
    ASSUME IndInv, NEW t \in Executors \cup Humans, NEW c \in Commands, NEW id \in Ids,
           NEW st \in {"check", "decide"}, Find(t, c, id, st),
           t \in Executors => st = "check",
           t \in Humans => st = "decide" /\ c = rows[id].command
    PROVE  IndInv'
<1>0. t \in Requests /\ t \notin Validators
  BY CommandsAssumption DEF Requests
<1>1. rows[id] \in Row /\ id \in Nat
  BY DEF IndInv, TypeOK, Ids
<1>2. TypeOK'
  BY <1>0, <1>1 DEF IndInv, TypeOK, Find, Go, Stages
<1>3. OthersKeep(t) /\ QuietLog /\ UNCHANGED <<rows, now>>
  BY DEF Find, Go, IndInv, TypeOK, OthersKeep, QuietLog
<1>4. stage'[t] = st /\ req'[t] = [command |-> c, id |-> id] /\ entity'[t] = rows[id]
  BY <1>0 DEF Find, Go, IndInv, TypeOK
<1>5. CopyInv(t)'
  BY <1>3, <1>4 DEF CopyInv, IndInv, ApprovalInv, RowsInv, Ids
<1>6. t \in Executors => ExecutorInv(t)'
  BY <1>3, <1>4 DEF ExecutorInv, IndInv, ApprovalInv, RowsInv, Find
<1>7. t \in Humans => HumanInv(t)'
  <2>1. rows[id].status = "pending" => NotExtending(log, id, rows[id].expiresAt)
    BY DEF NotExtending, IndInv, ApprovalInv, RowsInv
  <2> QED
    BY <1>3, <1>4, <2>1 DEF HumanInv, Find
<1> QED
  BY <1>0, <1>2, <1>3, <1>5, <1>6, <1>7, MoveKeeps

\* The first statement of save: the row is selected again, the entity is as the handler left it.
LEMMA SaveKeeps ==
    ASSUME IndInv, NEW t \in Executors \cup Humans, stage[t] \in {"check", "decide", "run"},
           NEW e \in Row, Save(t, e), UNCHANGED <<rows, now, log>>,
           e.command = entity[t].command, e.expiresAt <= now + TTL,
           t \in Executors => /\ e.status \in {"expired", "executed"}
                              /\ Approved(log, req[t].id, e.command, e.expiresAt),
           t \in Humans => /\ e.status \in {"approved", "rejected"}
                           /\ e.status = "rejected" => NotExtending(log, req[t].id, e.expiresAt)
    PROVE  IndInv'
<1>0. t \in Requests /\ t \notin Validators
  BY CommandsAssumption DEF Requests
<1>1. CopyInv(t) /\ req[t].id \in Ids /\ rows[req[t].id] \in Row
  BY <1>0 DEF IndInv, ApprovalInv, CopyInv, TypeOK, Ids
<1>2. TypeOK'
  BY <1>0, <1>1 DEF IndInv, TypeOK, Save, Go, Stages
<1>3. OthersKeep(t) /\ QuietLog
  BY DEF Save, Go, IndInv, TypeOK, OthersKeep, QuietLog
<1>4. stage'[t] = "update" /\ req'[t] = req[t] /\ entity'[t] = e /\ selected'[t] = rows[req[t].id]
  BY <1>0 DEF Save, Go, IndInv, TypeOK
<1>5. CopyInv(t)'
  BY <1>1, <1>4 DEF CopyInv, Ids
<1>6. t \in Executors => ExecutorInv(t)'
  BY <1>4 DEF ExecutorInv
<1>7. t \in Humans => HumanInv(t)'
  <2>1. t \in Humans => req[t].command = e.command
    BY DEF IndInv, ApprovalInv, HumanInv
  <2> QED
    BY <1>4, <2>1 DEF HumanInv
<1> QED
  BY <1>0, <1>2, <1>3, <1>5, <1>6, <1>7, MoveKeeps

\* The UPDATE of save, and for a human's request the decision logged.
LEMMA UpdateKeeps ==
    ASSUME IndInv, NEW t \in Executors \cup Humans, stage[t] = "update", Updated(t), Answer(t),
           UNCHANGED now,
           t \in Executors => UNCHANGED log,
           t \in Humans => Log(t, entity[t].status)
    PROVE  IndInv'
<1> DEFINE id == req[t].id
           e == entity[t]
           sel == selected[t]
           new == Saved(rows[id], sel, e)
           en == [event |-> e.status, id |-> id, command |-> req[t].command, at |-> now]
<1>0. t \in Requests /\ t \notin Validators
  BY CommandsAssumption DEF Requests
<1>1. /\ rows \in Seq(Row) /\ log \in Seq(Entry) /\ now \in Nat /\ id \in Ids /\ id \in Nat
      /\ rows[id] \in Row /\ sel \in Row /\ e \in Row /\ req[t].command \in Commands
  BY <1>0 DEF IndInv, TypeOK, ApprovalInv, CopyInv, Ids
<1>2. /\ e.command = rows[id].command /\ sel.command = rows[id].command
      /\ e.expiresAt <= now + TTL /\ rows[id].expiresAt <= now + TTL
      /\ sel.status # "pending" => rows[id].status # "pending"
      /\ rows[id].status = "approved" => Approved(log, id, rows[id].command, rows[id].expiresAt)
  BY <1>0, <1>1 DEF IndInv, ApprovalInv, CopyInv, RowsInv
<1>3. t \in Executors => /\ e.status \in {"expired", "executed"}
                         /\ Approved(log, id, e.command, e.expiresAt)
  BY DEF IndInv, ApprovalInv, ExecutorInv
<1>4. t \in Humans => /\ req[t].command = e.command
                      /\ e.status \in {"approved", "rejected"}
                      /\ e.status = "rejected" => NotExtending(log, id, e.expiresAt)
  BY DEF IndInv, ApprovalInv, HumanInv
<1>5. /\ new \in Row
      /\ new.command = IF e.command # sel.command THEN e.command ELSE rows[id].command
      /\ new.status = IF e.status # sel.status THEN e.status ELSE rows[id].status
      /\ new.expiresAt = IF e.expiresAt # sel.expiresAt THEN e.expiresAt ELSE rows[id].expiresAt
  BY <1>1, SavedColumns DEF Columns
<1>6. rows' = [rows EXCEPT ![id] = new]
  BY DEF Updated
<1> HIDE DEF new
<1>7. new.command = rows[id].command /\ new.expiresAt <= now + TTL /\ new.status # "pending"
  BY <1>2, <1>3, <1>4, <1>5
<1>8. /\ rows' \in Seq(Row) /\ Len(rows') = Len(rows) /\ rows'[id] = new
      /\ \A i \in Ids : i # id => rows'[i] = rows[i]
  BY <1>1, <1>5, <1>6 DEF Ids
<1>9. Ids' = Ids
  BY <1>8 DEF Ids
<1>10. t \in Humans => en \in Entry /\ log' = Append(log, en)
  BY <1>1, <1>4 DEF Entry, Log
<1>11. log' \in Seq(Entry) /\ \A i, c, x : Approved(log, i, c, x) => Approved(log', i, c, x)
  <2>1. CASE t \in Executors
    <3>1. log' = log
      BY <2>1
    <3> QED
      BY <1>1, <3>1
  <2>2. CASE t \in Humans
    <3> HIDE DEF en
    <3>1. en \in Entry /\ log' = Append(log, en)
      BY <1>10, <2>2
    <3>2. \A i, c, x : Approved(log, i, c, x) => Approved(log', i, c, x)
      BY <1>1, <3>1, ApprovedGrows
    <3>3. log' \in Seq(Entry)
      BY <1>1, <3>1
    <3> QED
      BY <3>2, <3>3
  <2> QED
    BY <2>1, <2>2
<1>12. \A i, x : NotExtending(log, i, x) /\ x <= now + TTL => NotExtending(log', i, x)
  <2>1. CASE t \in Executors
    BY <2>1
  <2>2. CASE t \in Humans
    BY <1>1, <1>10, <2>2, NotExtendingGrows
  <2> QED
    BY <2>1, <2>2
<1>13. new.status = "approved" => Approved(log', id, new.command, new.expiresAt)
  <2> SUFFICES ASSUME new.status = "approved" PROVE Approved(log', id, new.command, new.expiresAt)
    OBVIOUS
  <2>1. CASE t \in Executors
    BY <1>2, <1>3, <1>5, <1>7, <1>11, <2>1
  <2>2. CASE t \in Humans /\ e.status = "approved"
    <3>1. Approved(Append(log, en), en.id, en.command, new.expiresAt)
      BY <1>1, <1>7, <1>10, <2>2, ApprovedNow
    <3> QED
      BY <1>2, <1>4, <1>7, <1>10, <2>2, <3>1
  <2>3. CASE t \in Humans /\ e.status = "rejected"
    <3>1. Approved(log, id, rows[id].command, rows[id].expiresAt)
      BY <1>2, <1>5, <2>3
    <3>2. Approved(log, id, rows[id].command, e.expiresAt)
      BY <1>1, <1>4, <2>3, <3>1, NotExtendingApproved
    <3> QED
      BY <1>5, <1>7, <1>11, <3>1, <3>2
  <2> QED
    BY <1>4, <2>1, <2>2, <2>3
<1>14. RowsInv'
  <2>1. \A i \in Ids : /\ rows'[i].expiresAt <= now + TTL
                       /\ rows'[i].status = "approved" =>
                            Approved(log', i, rows'[i].command, rows'[i].expiresAt)
    BY <1>7, <1>8, <1>11, <1>13 DEF IndInv, ApprovalInv, RowsInv
  <2>2. \A i \in DOMAIN log' : (i \in DOMAIN log /\ log'[i] = log[i]) \/ log'[i].id = id
    BY <1>1, <1>10
  <2>3. ASSUME NEW i \in DOMAIN log'
        PROVE  /\ log'[i].id \in Ids
               /\ log'[i].event \in {"approved", "rejected"} => rows'[log'[i].id].status # "pending"
    <3>1. CASE i \in DOMAIN log /\ log'[i] = log[i]
      <4>1. /\ log[i].id \in Ids
            /\ log[i].event \in {"approved", "rejected"} => rows[log[i].id].status # "pending"
        BY <3>1 DEF IndInv, ApprovalInv, RowsInv
      <4>2. rows'[log[i].id] = IF log[i].id = id THEN new ELSE rows[log[i].id]
        BY <1>8, <4>1
      <4> QED
        BY <1>7, <3>1, <4>1, <4>2
    <3>2. CASE log'[i].id = id
      BY <1>1, <1>7, <1>8, <3>2
    <3> QED
      BY <2>2, <3>1, <3>2
  <2> QED
    BY <1>9, <2>1, <2>3 DEF RowsInv
<1>15. OthersKeep(t) /\ stage'[t] = "idle" /\ TypeOK'
  <2>1. TypeOK
    BY DEF IndInv
  <2>2. /\ OthersKeep(t) /\ stage'[t] = "idle"
        /\ stage' \in [Requests -> Stages]
        /\ req' \in [Requests -> [command : Commands, id : Nat]]
        /\ entity' \in [Requests -> Row] /\ selected' \in [Requests -> Row]
    BY <1>0, <2>1, AnswerFacts
  <2>3. rows' \in Seq(Row) /\ now' \in Nat /\ log' \in Seq(Entry)
    BY <1>1, <1>8, <1>11
  <2> QED
    BY <2>2, <2>3 DEF TypeOK
<1>16. ASSUME NEW u \in Requests PROVE CopyInv(u)'
  <2>1. CASE u = t
    BY <1>15, <2>1 DEF CopyInv
  <2>2. CASE u # t
    <3>1. CopyInv(u) /\ \A i \in Ids : i # id => rows'[i] = rows[i]
      BY <1>8 DEF IndInv, ApprovalInv
    <3>2. stage'[u] = stage[u] /\ req'[u] = req[u] /\ entity'[u] = entity[u] /\ selected'[u] = selected[u]
      BY <1>15, <2>2 DEF OthersKeep
    <3> QED
      BY <1>7, <1>8, <1>9, <3>1, <3>2 DEF CopyInv
  <2> QED
    BY <2>1, <2>2
<1>17. ASSUME NEW u \in Executors PROVE ExecutorInv(u)'
  BY <1>11, <1>15 DEF IndInv, ApprovalInv, ExecutorInv, OthersKeep, Requests
<1>18. ASSUME NEW u \in Humans PROVE HumanInv(u)'
  <2>1. CASE u = t
    BY <1>15, <2>1 DEF HumanInv
  <2>2. CASE u # t
    <3>1. HumanInv(u) /\ CopyInv(u)
      BY DEF Requests, IndInv, ApprovalInv
    <3>2. stage'[u] = stage[u] /\ req'[u] = req[u] /\ entity'[u] = entity[u]
      BY <1>15, <2>2 DEF OthersKeep, Requests
    <3> QED
      BY <1>12, <3>1, <3>2 DEF HumanInv, CopyInv
  <2> QED
    BY <2>1, <2>2
<1>19. \A u \in Validators : stage'[u] \in {"idle", "create"}
  BY <1>0, <1>15 DEF IndInv, ApprovalInv, OthersKeep, Requests
<1> QED
  BY <1>14, <1>15, <1>16, <1>17, <1>18, <1>19 DEF IndInv, ApprovalInv

-----------------------------------------------------------------------------
(* The theorem *)

LEMMA CreateKeeps ==
    ASSUME IndInv, NEW t \in Validators, Create(t)
    PROVE  IndInv'
<1> DEFINE new == [Blank EXCEPT !.command = req[t].command, !.expiresAt = now + TTL]
<1>0. t \in Requests /\ t \notin Executors /\ t \notin Humans
  BY CommandsAssumption DEF Requests
<1>1. rows \in Seq(Row) /\ now \in Nat /\ TTL \in Nat /\ log \in Seq(Entry)
  BY CommandsAssumption DEF IndInv, TypeOK
<1>2. req[t].command \in Commands
  BY <1>0 DEF IndInv, TypeOK
<1>3. new \in Row /\ new.status = "pending" /\ new.expiresAt = now + TTL
  <2>1. new \in Row
    <3>1. now + TTL \in Nat
      BY <1>1
    <3>2. \A b \in Row, c \in Commands, x \in Nat :
            [b EXCEPT !.command = c, !.expiresAt = x] \in Row
      BY DEF Row
    <3> QED
      BY <1>2, <3>1, <3>2, BlankIsRow
  <2>2. new.status = Blank.status /\ new.expiresAt = now + TTL
    BY BlankIsRow DEF Row
  <2> QED
    BY <2>1, <2>2, BlankIsRow
<1>4. rows' = Append(rows, new) /\ UNCHANGED <<now, log>> /\ Answer(t)
  BY DEF Create
<1> HIDE DEF new
<1>5. /\ rows' \in Seq(Row) /\ Len(rows') = Len(rows) + 1 /\ rows'[Len(rows) + 1] = new
      /\ \A i \in Ids : i \in Ids' /\ rows'[i] = rows[i]
      /\ Ids' = Ids \cup {Len(rows) + 1}
  BY <1>1, <1>3, <1>4 DEF Ids
<1>6. OthersKeep(t) /\ stage'[t] = "idle" /\ TypeOK'
  BY <1>0, <1>4, <1>5, AnswerFacts DEF IndInv, TypeOK
<1>7. RowsInv'
  <2>1. ASSUME NEW i \in Ids'
        PROVE  /\ rows'[i].expiresAt <= now + TTL
               /\ rows'[i].status = "approved" =>
                    Approved(log, i, rows'[i].command, rows'[i].expiresAt)
    <3>1. CASE i \in Ids
      BY <1>5, <3>1 DEF IndInv, ApprovalInv, RowsInv
    <3>2. CASE i = Len(rows) + 1
      BY <1>1, <1>3, <1>5, <3>2
    <3> QED
      BY <1>5, <3>1, <3>2
  <2>2. \A i \in DOMAIN log :
          /\ log[i].id \in Ids'
          /\ log[i].event \in {"approved", "rejected"} => rows'[log[i].id].status # "pending"
    BY <1>5 DEF IndInv, ApprovalInv, RowsInv
  <2> QED
    BY <1>4, <2>1, <2>2 DEF RowsInv
<1>8. ASSUME NEW u \in Requests PROVE CopyInv(u)'
  <2>1. CASE u = t
    BY <1>6, <2>1 DEF CopyInv
  <2>2. CASE u # t
    <3>1. CopyInv(u)
      BY DEF IndInv, ApprovalInv
    <3>2. /\ stage'[u] = stage[u] /\ req'[u] = req[u]
          /\ entity'[u] = entity[u] /\ selected'[u] = selected[u]
      BY <1>6, <2>2 DEF OthersKeep
    <3> QED
      BY <1>4, <1>5, <3>1, <3>2 DEF CopyInv
  <2> QED
    BY <2>1, <2>2
<1>9. ASSUME NEW u \in Executors PROVE ExecutorInv(u)'
  BY <1>0, <1>4, <1>6 DEF IndInv, ApprovalInv, ExecutorInv, OthersKeep, Requests
<1>10. ASSUME NEW u \in Humans PROVE HumanInv(u)'
  BY <1>0, <1>4, <1>6 DEF IndInv, ApprovalInv, HumanInv, OthersKeep, Requests
<1>11. \A u \in Validators : stage'[u] \in {"idle", "create"}
  BY <1>6 DEF IndInv, ApprovalInv, OthersKeep, Requests
<1> QED
  BY <1>6, <1>7, <1>8, <1>9, <1>10, <1>11 DEF IndInv, ApprovalInv

\* A run is logged right after the check found a fresh approval for its command.
RunApproved(l, j) ==
    l[j].event = "run" =>
        \E i \in 1 .. j - 1 :
            /\ l[i].event = "approved" /\ l[i].id = l[j].id
            /\ l[i].command = l[j].command
            /\ l[j].at <= l[i].at + TTL

LEMMA RunLogged ==
    ASSUME NEW l \in Seq(Entry), NEW en \in Entry, \A j \in DOMAIN l : RunApproved(l, j),
           en.event = "run" => Approved(l, en.id, en.command, en.at)
    PROVE  \A j \in DOMAIN Append(l, en) : RunApproved(Append(l, en), j)
<1> DEFINE m == Append(l, en)
<1>1. /\ Len(l) \in Nat /\ DOMAIN l = 1 .. Len(l) /\ DOMAIN m = 1 .. Len(l) + 1
      /\ \A i \in DOMAIN l : m[i] = l[i]
      /\ m[Len(l) + 1] = en
  OBVIOUS
<1> HIDE DEF m
<1>2. ASSUME NEW j \in DOMAIN l PROVE RunApproved(m, j)
  <2> SUFFICES ASSUME m[j].event = "run"
               PROVE  \E i \in 1 .. j - 1 : /\ m[i].event = "approved" /\ m[i].id = m[j].id
                                            /\ m[i].command = m[j].command
                                            /\ m[j].at <= m[i].at + TTL
    BY DEF RunApproved
  <2>1. RunApproved(l, j) /\ m[j] = l[j]
    BY <1>1
  <2>2. PICK i \in 1 .. j - 1 : /\ l[i].event = "approved" /\ l[i].id = l[j].id
                                /\ l[i].command = l[j].command
                                /\ l[j].at <= l[i].at + TTL
    BY <2>1 DEF RunApproved
  <2>3. m[i] = l[i]
    BY <1>1
  <2> QED
    BY <2>1, <2>2, <2>3
<1>3. RunApproved(m, Len(l) + 1)
  BY <1>1 DEF RunApproved, Approved
<1>4. \A j \in DOMAIN m : j \in DOMAIN l \/ j = Len(l) + 1
  BY <1>1
<1> QED
  BY <1>2, <1>3, <1>4 DEF m

\* An expired approval is saved, a fresh one starts the command.
LEMMA CheckKeeps ==
    ASSUME IndInv, NEW t \in Executors, Check(t)
    PROVE  IndInv'
<1> DEFINE found == entity[t]
           en == [event |-> "run", id |-> req[t].id, command |-> req[t].command, at |-> now]
<1>0. t \in Requests /\ t \notin Validators /\ t \notin Humans
  BY CommandsAssumption DEF Requests
<1>1. stage[t] = "check" /\ CopyInv(t) /\ ExecutorInv(t) /\ found \in Row
  BY <1>0 DEF Check, IndInv, TypeOK, ApprovalInv
<1>2. CASE Answer(t) /\ UNCHANGED log
  BY <1>0, <1>2, AnswerKeeps DEF Check, QuietLog
<1>3. CASE found.status = "approved" /\ Save(t, [found EXCEPT !.status = "expired"]) /\ UNCHANGED log
  <2> DEFINE e == [found EXCEPT !.status = "expired"]
  <2>1. /\ e \in Row /\ e.status = "expired"
        /\ e.command = found.command /\ e.expiresAt = found.expiresAt
    BY <1>1 DEF Row, Statuses
  <2>2. Save(t, e) /\ UNCHANGED <<rows, now, log>>
    BY <1>3 DEF Check
  <2> HIDE DEF e
  <2> QED
    BY <1>0, <1>1, <1>3, <2>1, <2>2, SaveKeeps DEF CopyInv, ExecutorInv
<1>4. CASE /\ found.status = "approved"
           /\ Log(t, "run") /\ Go(t, "run") /\ UNCHANGED <<req, entity, selected>>
  <2>1. UNCHANGED <<rows, now>>
    BY DEF Check
  <2>2. en \in Entry /\ en.id \in Ids /\ log' = Append(log, en)
    BY <1>0, <1>1, <1>4 DEF IndInv, TypeOK, Entry, Log, CopyInv
  <2>3. QuietLog
    BY <2>2 DEF QuietLog
  <2>4. OthersKeep(t) /\ stage'[t] = "run" /\ stage' \in [Requests -> Stages]
    BY <1>0, <1>4 DEF IndInv, TypeOK, Go, OthersKeep, Stages
  <2>5. TypeOK'
    BY <1>4, <2>1, <2>3, <2>4, QuietLogKeeps DEF IndInv, TypeOK
  <2>6. CopyInv(t)'
    BY <1>1, <1>4, <2>1, <2>4 DEF CopyInv, Ids
  <2>7. ExecutorInv(t)'
    BY <1>1, <1>4, <2>1, <2>3, <2>4, QuietLogKeeps DEF ExecutorInv
  <2> QED
    BY <1>0, <2>1, <2>3, <2>4, <2>5, <2>6, <2>7, MoveKeeps
<1> QED
  BY <1>2, <1>3, <1>4 DEF Check

\* The invariant is kept by every step, whatever requests overlap and whatever saves are lost.
LEMMA NextKeeps ==
    ASSUME IndInv, [Next]_vars
    PROVE  IndInv'
<1> USE DEF Requests
<1>1. ASSUME NEW t \in Validators, Create(t) PROVE IndInv'
  BY <1>1, CreateKeeps
<1>2. ASSUME NEW t \in Validators, NEW c \in Commands, Validate(t, c) PROVE IndInv'
  <2>0. t \notin Executors /\ t \notin Humans
    BY CommandsAssumption
  <2>1. OthersKeep(t) /\ stage'[t] = "create"
    BY <1>2 DEF Validate, Go, IndInv, TypeOK, OthersKeep
  <2>2. TypeOK'
    BY <1>2 DEF Validate, Go, IndInv, TypeOK, Stages
  <2>3. CopyInv(t)' /\ QuietLog /\ UNCHANGED <<rows, now>>
    BY <1>2, <2>1 DEF CopyInv, Validate, QuietLog
  <2> QED
    BY <2>0, <2>1, <2>2, <2>3, MoveKeeps
<1>3. ASSUME NEW t \in Executors, NEW c \in Commands, NEW id \in Ids, Execute(t, c, id) PROVE IndInv'
  BY <1>3, CommandsAssumption, FindKeeps DEF Execute
<1>4. ASSUME NEW t \in Executors, Check(t) PROVE IndInv'
  BY <1>4, CheckKeeps
<1>5. ASSUME NEW t \in Executors, Finish(t) PROVE IndInv'
  <2> DEFINE e == [entity[t] EXCEPT !.status = "executed"]
  <2>1. entity[t] \in Row /\ stage[t] = "run" /\ CopyInv(t) /\ ExecutorInv(t)
    BY <1>5 DEF Finish, IndInv, TypeOK, ApprovalInv
  <2>2. /\ e \in Row /\ e.status = "executed"
        /\ e.command = entity[t].command /\ e.expiresAt = entity[t].expiresAt
    BY <2>1 DEF Row, Statuses
  <2>3. Save(t, e) /\ UNCHANGED <<rows, now, log>> /\ t \notin Humans
    BY <1>5, CommandsAssumption DEF Finish
  <2> HIDE DEF e
  <2> QED
    BY <2>1, <2>2, <2>3, SaveKeeps DEF CopyInv, ExecutorInv
<1>6. ASSUME NEW t \in Executors, ExecuteSaved(t) PROVE IndInv'
  BY <1>6, CommandsAssumption, UpdateKeeps DEF ExecuteSaved
<1>7. ASSUME NEW h \in Humans, NEW id \in Ids, Decide(h, id) PROVE IndInv'
  <2>1. rows[id].command \in Commands /\ h \notin Executors
    BY CommandsAssumption, RowOf DEF IndInv
  <2> QED
    BY <1>7, <2>1, FindKeeps DEF Decide
<1>8. ASSUME NEW h \in Humans, Approve(h) PROVE IndInv'
  <2> DEFINE e == [entity[h] EXCEPT !.status = "approved", !.approvedBy = TRUE, !.expiresAt = now + TTL]
  <2>1. entity[h] \in Row /\ stage[h] = "decide" /\ now + TTL \in Nat
    BY <1>8, CommandsAssumption DEF Approve, IndInv, TypeOK
  <2>2. /\ e \in Row /\ e.status = "approved"
        /\ e.command = entity[h].command /\ e.expiresAt = now + TTL
    BY <2>1 DEF Row, Statuses
  <2>3. Save(h, e) /\ UNCHANGED <<rows, now, log>> /\ h \notin Executors
    BY <1>8, CommandsAssumption DEF Approve
  <2>4. e.expiresAt <= now + TTL
    BY <2>1, <2>2
  <2> HIDE DEF e
  <2> QED
    BY <2>1, <2>2, <2>3, <2>4, SaveKeeps
<1>9. ASSUME NEW h \in Humans, Reject(h) PROVE IndInv'
  <2> DEFINE e == [entity[h] EXCEPT !.status = "rejected", !.rejectedBy = TRUE]
  <2>1. /\ entity[h] \in Row /\ stage[h] = "decide" /\ entity[h].status = "pending"
        /\ CopyInv(h) /\ HumanInv(h)
    BY <1>9 DEF Reject, IndInv, TypeOK, ApprovalInv
  <2>2. /\ e \in Row /\ e.status = "rejected"
        /\ e.command = entity[h].command /\ e.expiresAt = entity[h].expiresAt
    BY <2>1 DEF Row, Statuses
  <2>3. Save(h, e) /\ UNCHANGED <<rows, now, log>> /\ h \notin Executors
    BY <1>9, CommandsAssumption DEF Reject
  <2> HIDE DEF e
  <2> QED
    BY <2>1, <2>2, <2>3, SaveKeeps DEF CopyInv, HumanInv
<1>10. ASSUME NEW h \in Humans, Conflict(h) PROVE IndInv'
  BY <1>10, AnswerKeeps DEF Conflict, QuietLog
<1>11. ASSUME NEW h \in Humans, DecisionSaved(h) PROVE IndInv'
  BY <1>11, CommandsAssumption, UpdateKeeps DEF DecisionSaved
<1>12. ASSUME NEW t \in Requests, SaveLost(t) PROVE IndInv'
  <2>1. CASE UNCHANGED log
    BY <1>12, <2>1, AnswerKeeps DEF SaveLost, QuietLog
  <2>2. CASE AfterRun(t) /\ Log(t, "lost")
    <3> DEFINE en == [event |-> "lost", id |-> req[t].id, command |-> req[t].command, at |-> now]
    <3>1. CopyInv(t) /\ stage[t] \in {"run", "update"}
      BY <2>2 DEF AfterRun, IndInv, ApprovalInv
    <3>2. en \in Entry /\ en.event = "lost" /\ en.id \in Ids /\ log' = Append(log, en)
      BY <2>2, <3>1 DEF IndInv, TypeOK, Entry, Log, CopyInv
    <3>3. QuietLog
      BY <3>2 DEF QuietLog
    <3> QED
      BY <1>12, <3>3, AnswerKeeps DEF SaveLost
  <2> QED
    BY <1>12, <2>1, <2>2 DEF SaveLost
<1>13. CASE Tick
  <2>1. now' = now + 1 /\ now \in Nat /\ TTL \in Nat /\ UNCHANGED <<rows, stage, req, entity, selected, log>>
    BY <1>13, CommandsAssumption DEF Tick, IndInv, TypeOK
  <2>2. TypeOK'
    BY <2>1 DEF IndInv, TypeOK
  <2>3. RowsInv'
    <3>1. \A id \in Ids : rows[id].expiresAt \in Nat
      BY RowOf DEF IndInv
    <3> QED
      BY <2>1, <3>1 DEF IndInv, ApprovalInv, RowsInv, Ids
  <2>4. ASSUME NEW t \in Requests PROVE CopyInv(t)'
    <3>1. entity[t].expiresAt \in Nat
      BY DEF IndInv, TypeOK, Row
    <3> QED
      BY <2>1, <3>1 DEF IndInv, ApprovalInv, CopyInv, Ids
  <2>5. \A t \in Executors : ExecutorInv(t)'
    BY <2>1 DEF IndInv, ApprovalInv, ExecutorInv
  <2>6. \A h \in Humans : HumanInv(h)'
    BY <2>1 DEF IndInv, ApprovalInv, HumanInv
  <2> QED
    BY <2>1, <2>2, <2>3, <2>4, <2>5, <2>6 DEF IndInv, ApprovalInv
<1>14. CASE UNCHANGED vars
  BY <1>14 DEF vars, IndInv, TypeOK, ApprovalInv, RowsInv, CopyInv, ExecutorInv, HumanInv, Ids
<1> QED
  BY <1>1, <1>2, <1>3, <1>4, <1>5, <1>6, <1>7, <1>8, <1>9, <1>10, <1>11, <1>12, <1>13, <1>14 DEF Next

LEMMA InitIndInv == Init => IndInv
<1> SUFFICES ASSUME Init PROVE IndInv
  OBVIOUS
<1>1. TypeOK
  <2>1. [command |-> Blank.command, id |-> 0] \in [command : Commands, id : Nat]
    BY BlankIsRow DEF Row
  <2>2. << >> \in Seq(Row) /\ << >> \in Seq(Entry)
    OBVIOUS
  <2> QED
    BY <2>1, <2>2, BlankIsRow DEF Init, TypeOK, Stages
<1>2. RowsInv
  BY DEF Init, RowsInv, Ids
<1>3. \A t \in Requests : CopyInv(t) /\ stage[t] = "idle"
  BY DEF Init, CopyInv
<1> QED
  BY <1>1, <1>2, <1>3 DEF IndInv, ApprovalInv, ExecutorInv, HumanInv, Requests

RunsApproved == \A j \in DOMAIN log : RunApproved(log, j)

LEMMA RunsStayApproved ==
    ASSUME IndInv, RunsApproved, [Next]_vars
    PROVE  RunsApproved'
<1>1. CASE UNCHANGED log
  BY <1>1 DEF RunsApproved
<1>2. ASSUME NEW en \in Entry, log' = Append(log, en),
             en.event = "run" => Approved(log, en.id, en.command, en.at)
      PROVE  RunsApproved'
  BY <1>2, RunLogged DEF RunsApproved, IndInv, TypeOK
<1>3. ASSUME NEW t \in Requests, NEW event \in {"lost", "approved", "rejected"}, Log(t, event)
      PROVE  RunsApproved'
  <2> DEFINE en == [event |-> event, id |-> req[t].id, command |-> req[t].command, at |-> now]
  <2>1. en \in Entry /\ en.event # "run" /\ log' = Append(log, en)
    BY <1>3 DEF IndInv, TypeOK, Entry, Log
  <2> HIDE DEF en
  <2> QED
    BY <1>2, <2>1
<1>4. ASSUME NEW t \in Executors, Check(t) PROVE RunsApproved'
  <2> DEFINE en == [event |-> "run", id |-> req[t].id, command |-> req[t].command, at |-> now]
  <2>1. CASE UNCHANGED log
    BY <1>1, <2>1
  <2>2. CASE /\ entity[t].status = "approved" /\ entity[t].command = req[t].command
             /\ ~Expired(entity[t]) /\ Log(t, "run")
    <3>1. en \in Entry /\ log' = Append(log, en)
      BY <2>2 DEF IndInv, TypeOK, Entry, Log, Requests
    <3>2. Approved(log, en.id, en.command, entity[t].expiresAt)
      BY <1>4, <2>2 DEF IndInv, ApprovalInv, ExecutorInv, Check
    <3>3. en.at <= entity[t].expiresAt /\ en.at \in Nat /\ entity[t].expiresAt \in Nat
      <4>1. entity[t] \in Row /\ now \in Nat
        BY DEF IndInv, TypeOK, Requests
      <4> QED
        BY <2>2, <4>1 DEF Expired, Row
    <3>4. Approved(log, en.id, en.command, en.at)
      <4>1. log \in Seq(Entry) /\ TTL \in Nat
        BY CommandsAssumption DEF IndInv, TypeOK
      <4>2. \A i \in DOMAIN log : log[i].at \in Nat
        <5>1. \A i \in DOMAIN log : log[i] \in Entry
          BY <4>1
        <5> QED
          BY <5>1 DEF Entry
      <4> HIDE DEF en
      <4> QED
        BY <3>2, <3>3, <4>1, <4>2 DEF Approved
    <3> HIDE DEF en
    <3> QED
      BY <1>2, <3>1, <3>4
  <2> QED
    BY <1>4, <2>1, <2>2 DEF Check
<1>5. ASSUME NEW h \in Humans, DecisionSaved(h) PROVE RunsApproved'
  <2>1. entity[h].status \in {"approved", "rejected"} /\ h \in Requests
    BY <1>5 DEF IndInv, ApprovalInv, HumanInv, DecisionSaved, Requests
  <2> QED
    BY <1>3, <1>5, <2>1 DEF DecisionSaved
<1>6. ASSUME NEW t \in Requests, SaveLost(t) PROVE RunsApproved'
  BY <1>1, <1>3, <1>6 DEF SaveLost
<1> QED
  BY <1>1, <1>4, <1>5, <1>6
  DEF Next, vars, Create, Validate, Execute, Find, Finish, ExecuteSaved, Decide, Approve, Reject,
      Conflict, Tick

\* Whatever requests overlap, a destructive command runs only under an approval of a human for
\* that command that is not older than the TTL.
THEOREM RunsAreApproved == Spec => []ApprovedRun
<1>1. Init => IndInv /\ RunsApproved
  BY InitIndInv DEF Init, RunsApproved
<1>2. IndInv /\ RunsApproved /\ [Next]_vars => (IndInv /\ RunsApproved)'
  BY NextKeeps, RunsStayApproved
<1>3. RunsApproved => ApprovedRun
  BY DEF RunsApproved, RunApproved, ApprovedRun
<1> QED
  BY <1>1, <1>2, <1>3, PTL DEF Spec

\* Every state of the approvals and of the requests on them is type-correct.
THEOREM TypeCorrect == Spec => []TypeOK
<1>1. Init => IndInv
  BY InitIndInv
<1>2. IndInv /\ [Next]_vars => IndInv'
  BY NextKeeps
<1>3. IndInv => TypeOK
  BY DEF IndInv
<1> QED
  BY <1>1, <1>2, <1>3, PTL DEF Spec
-----------------------------------------------------------------------------
(* Decisions, while validations, executions and decisions come one at a time each *)

OneEach ==
    /\ \A s, t \in Validators : s = t
    /\ \A s, t \in Executors : s = t
    /\ \A s, t \in Humans : s = t

\* An execution that has found its approval approved.
Uses(t) == stage[t] \in {"run", "update"} \/ (stage[t] = "check" /\ entity[t].status = "approved")

\* A decision on an approval that was pending.
Deciding(h) == stage[h] = "update" \/ (stage[h] = "decide" /\ entity[h].status = "pending")

\* A run's approval is used up, or is being so, or the save of the run was lost.
UsedUp(i) ==
    \/ rows[log[i].id].status = "executed"
    \/ \E t \in Executors : AfterRun(t) /\ req[t].id = log[i].id
    \/ \E k \in i .. Len(log) : log[k].event = "lost" /\ log[k].id = log[i].id

\* Who has an approval at hand has it as it is in the table.
HandsInv ==
    /\ \A t \in Executors :
         /\ Uses(t) => rows[req[t].id].status = "approved"
         /\ stage[t] = "update" => selected[t].status = "approved"
    /\ \A h \in Humans :
         /\ Deciding(h) => rows[req[h].id].status = "pending"
         /\ stage[h] = "update" => selected[h].status = "pending"
    /\ \A v \in Validators : stage[v] = "create" =>
         \A id \in Ids : rows[id].command = req[v].command => rows[id].status # "pending"

OnePending ==
    \A i, j \in Ids :
        rows[i].command = rows[j].command /\ rows[i].status = "pending" /\ rows[j].status = "pending"
            => i = j

SettledLog ==
    \A i \in DOMAIN log :
        /\ log[i].event = "rejected" => rows[log[i].id].status = "rejected"
        /\ log[i].event = "run" => UsedUp(i)

DecisionInv == HandsInv /\ OnePending /\ SettledLog /\ RejectedNeverRuns /\ RunsOnce

LEMMA Logged ==
    ASSUME IndInv, NEW en \in Entry, log' = Append(log, en)
    PROVE  /\ Len(log) \in Nat /\ DOMAIN log = 1 .. Len(log)
           /\ Len(log') = Len(log) + 1 /\ DOMAIN log' = 1 .. Len(log) + 1
           /\ \A i \in DOMAIN log : log'[i] = log[i]
           /\ log'[Len(log) + 1] = en
<1>1. log \in Seq(Entry)
  BY DEF IndInv, TypeOK
<1> QED
  BY <1>1

\* What is logged beside a run disturbs no run before it.
LEMMA RunsStand ==
    ASSUME IndInv, RejectedNeverRuns, RunsOnce,
           UNCHANGED log \/ \E en \in Entry : en.event # "run" /\ log' = Append(log, en)
    PROVE  RejectedNeverRuns' /\ RunsOnce'
<1>1. CASE UNCHANGED log
  BY <1>1 DEF RejectedNeverRuns, RunsOnce
<1>2. ASSUME NEW en \in Entry, en.event # "run", log' = Append(log, en)
      PROVE  RejectedNeverRuns' /\ RunsOnce'
  <2>1. /\ Len(log) \in Nat /\ DOMAIN log = 1 .. Len(log) /\ DOMAIN log' = 1 .. Len(log) + 1
        /\ (\A i \in DOMAIN log : log'[i] = log[i]) /\ log'[Len(log) + 1] = en
    BY <1>2, Logged
  <2>2. \A i, j \in DOMAIN log' : i < j /\ log'[j].event = "run" =>
            i \in DOMAIN log /\ j \in DOMAIN log /\ \A k \in i .. j : k \in DOMAIN log
    <3>1. \A j \in DOMAIN log' : log'[j].event = "run" => j # Len(log) + 1
      BY <1>2, <2>1
    <3> DEFINE n == Len(log)
    <3>2. \A i, j \in 1 .. n + 1 : i < j /\ j # n + 1 =>
            i \in 1 .. n /\ j \in 1 .. n /\ \A k \in i .. j : k \in 1 .. n
      BY <2>1
    <3> QED
      BY <2>1, <3>1, <3>2
  <2>3. RejectedNeverRuns'
    BY <2>1, <2>2 DEF RejectedNeverRuns
  <2>4. RunsOnce'
    <3> SUFFICES ASSUME NEW i \in DOMAIN log', NEW j \in DOMAIN log', i < j, log'[i].event = "run",
                        log'[j].event = "run", log'[i].id = log'[j].id
                 PROVE  \E k \in i .. j : log'[k].event = "lost" /\ log'[k].id = log'[i].id
      BY DEF RunsOnce
    <3>1. /\ i \in DOMAIN log /\ j \in DOMAIN log /\ (\A k \in i .. j : k \in DOMAIN log)
          /\ log'[i] = log[i] /\ log'[j] = log[j]
      BY <2>1, <2>2
    <3>2. PICK k \in i .. j : log[k].event = "lost" /\ log[k].id = log[i].id
      BY <3>1 DEF RunsOnce
    <3> QED
      BY <2>1, <3>1, <3>2
  <2> QED
    BY <2>3, <2>4
<1> QED
  BY <1>1, <1>2

\* The log settles what it settled, as long as rows that are rejected or executed stay so, runs on
\* their way to a save go on or are logged as lost, and no decision but the one in the row is logged.
Settles(en) ==
    /\ en.event = "rejected" => rows'[en.id].status = "rejected"
    /\ en.event = "run" => \E t \in Executors : AfterRun(t)' /\ req'[t].id = en.id

LEMMA LogStaysSettled ==
    ASSUME IndInv, SettledLog,
           UNCHANGED log \/ \E en \in Entry : Settles(en) /\ log' = Append(log, en),
           \A id \in Ids : rows[id].status \in {"rejected", "executed"} => rows'[id].status = rows[id].status,
           \A t \in Executors : AfterRun(t) =>
               \/ AfterRun(t)' /\ req'[t].id = req[t].id
               \/ rows'[req[t].id].status = "executed"
               \/ Len(log') = Len(log) + 1 /\ log'[Len(log')].event = "lost" /\ log'[Len(log')].id = req[t].id
    PROVE  SettledLog'
<1>0. Len(log) \in Nat /\ DOMAIN log = 1 .. Len(log) /\ \A i \in DOMAIN log : log[i].id \in Ids
  <2>1. log \in Seq(Entry)
    BY DEF IndInv, TypeOK
  <2> QED
    BY <2>1 DEF IndInv, ApprovalInv, RowsInv
<1>1. \/ UNCHANGED log
      \/ /\ Len(log') = Len(log) + 1 /\ DOMAIN log' = 1 .. Len(log) + 1
         /\ (\A i \in DOMAIN log : log'[i] = log[i]) /\ Settles(log'[Len(log) + 1])
  BY Logged
<1>2. /\ Len(log') \in Nat /\ Len(log) <= Len(log') /\ DOMAIN log' = 1 .. Len(log')
      /\ \A i \in DOMAIN log : log'[i] = log[i] /\ i \in DOMAIN log'
  BY <1>0, <1>1
<1>3. ASSUME NEW i \in DOMAIN log PROVE log'[i].event = "rejected" => rows'[log'[i].id].status = "rejected"
  BY <1>0, <1>2 DEF SettledLog
<1>4. \A i \in DOMAIN log : i \in Nat /\ i <= Len(log)
  BY <1>0
<1>5. ASSUME NEW i \in DOMAIN log, log'[i].event = "run" PROVE UsedUp(i)'
  <2>1. log'[i] = log[i] /\ UsedUp(i) /\ log[i].id \in Ids
    BY <1>0, <1>2, <1>5 DEF SettledLog
  <2> DEFINE n == Len(log)
             m == Len(log')
  <2>0. i \in Nat /\ i <= n /\ n \in Nat /\ m \in Nat /\ n <= m
    BY <1>0, <1>2, <1>4
  <2>2. CASE rows[log[i].id].status = "executed"
    BY <2>1, <2>2 DEF UsedUp
  <2>3. CASE \E t \in Executors : AfterRun(t) /\ req[t].id = log[i].id
    <3>1. PICK t \in Executors : AfterRun(t) /\ req[t].id = log[i].id
      BY <2>3
    <3>2. CASE AfterRun(t)' /\ req'[t].id = req[t].id
      BY <2>1, <3>1, <3>2 DEF UsedUp
    <3>3. CASE rows'[req[t].id].status = "executed"
      BY <2>1, <3>1, <3>3 DEF UsedUp
    <3>4. CASE Len(log') = Len(log) + 1 /\ log'[Len(log')].event = "lost" /\ log'[Len(log')].id = req[t].id
      <4>1. Len(log') \in i .. Len(log')
        <5> HIDE DEF m, n
        <5> m \in i .. m
          BY <2>0
        <5> QED
          BY DEF m
      <4> QED
        BY <2>1, <3>1, <3>4, <4>1 DEF UsedUp
    <3> QED
      BY <3>1, <3>2, <3>3, <3>4
  <2>4. CASE \E k \in i .. Len(log) : log[k].event = "lost" /\ log[k].id = log[i].id
    <3>1. PICK k \in i .. Len(log) : log[k].event = "lost" /\ log[k].id = log[i].id
      BY <2>4
    <3>2. k \in DOMAIN log /\ k \in i .. Len(log')
      <4> HIDE DEF m, n
      <4>1. k \in 1 .. n \/ i = 0
        BY <2>0, <3>1 DEF n
      <4>2. \A x \in i .. n : x \in i .. m
        BY <2>0
      <4>3. i # 0
        BY <1>0
      <4> QED
        BY <1>0, <3>1, <4>1, <4>2, <4>3 DEF n, m
    <3> QED
      BY <1>2, <2>1, <3>1, <3>2 DEF UsedUp
  <2> QED
    BY <2>1, <2>2, <2>3, <2>4 DEF UsedUp
<1>6. ASSUME NEW i \in DOMAIN log', i \notin DOMAIN log
      PROVE  /\ log'[i].event = "rejected" => rows'[log'[i].id].status = "rejected"
             /\ log'[i].event = "run" => UsedUp(i)'
  <2>1. Settles(log'[i])
    BY <1>0, <1>1, <1>6
  <2> QED
    BY <2>1 DEF Settles, UsedUp
<1> QED
  BY <1>3, <1>5, <1>6 DEF SettledLog

\* A request t moves on while the rows stay: what it holds afterwards decides.
Holds(t) ==
    /\ t \in Executors =>
         /\ Uses(t) => rows[req[t].id].status = "approved"
         /\ stage[t] = "update" => selected[t].status = "approved"
    /\ t \in Humans =>
         /\ Deciding(t) => rows[req[t].id].status = "pending"
         /\ stage[t] = "update" => selected[t].status = "pending"
    /\ t \in Validators /\ stage[t] = "create" =>
         \A id \in Ids : rows[id].command = req[t].command => rows[id].status # "pending"

LEMMA HandsMove ==
    ASSUME HandsInv, NEW t \in Requests, OthersKeep(t), UNCHANGED rows, Holds(t)'
    PROVE  HandsInv'
<1>1. ASSUME NEW u \in Requests, u # t PROVE Holds(u)'
  <2>1. Holds(u)
    BY DEF HandsInv, Holds
  <2>2. stage'[u] = stage[u] /\ req'[u] = req[u] /\ entity'[u] = entity[u] /\ selected'[u] = selected[u]
    BY <1>1 DEF OthersKeep
  <2> QED
    BY <2>1, <2>2 DEF Holds, Uses, Deciding, Ids
<1>2. \A u \in Requests : Holds(u)'
  BY <1>1
<1> QED
  BY <1>2 DEF HandsInv, Holds, Requests

LEMMA DecisionMove ==
    ASSUME IndInv, DecisionInv, NEW t \in Requests, OthersKeep(t), UNCHANGED <<rows, log>>, Holds(t)',
           t \in Executors /\ AfterRun(t) => AfterRun(t)' /\ req'[t].id = req[t].id
    PROVE  DecisionInv'
<1>1. HandsInv'
  BY HandsMove DEF DecisionInv
<1>2. OnePending'
  BY DEF DecisionInv, OnePending, Ids
<1>3. \A u \in Executors : AfterRun(u) => AfterRun(u)' /\ req'[u].id = req[u].id
  BY DEF OthersKeep, AfterRun, Requests
<1>4. SettledLog'
  BY <1>3, LogStaysSettled DEF DecisionInv
<1> QED
  BY <1>1, <1>2, <1>4, RunsStand DEF DecisionInv

LEMMA DecisionFind ==
    ASSUME IndInv, DecisionInv, NEW t \in Executors \cup Humans, NEW c \in Commands, NEW id \in Ids,
           NEW st \in {"check", "decide"}, Find(t, c, id, st),
           t \in Executors => st = "check", t \in Humans => st = "decide"
    PROVE  DecisionInv'
<1>0. t \in Requests /\ t \notin Validators
  BY CommandsAssumption DEF Requests
<1>1. /\ OthersKeep(t) /\ UNCHANGED <<rows, log>> /\ stage[t] = "idle"
      /\ stage'[t] = st /\ req'[t].id = id /\ entity'[t] = rows[id]
  BY <1>0 DEF Find, Go, IndInv, TypeOK, OthersKeep
<1>2. Holds(t)'
  BY <1>0, <1>1 DEF Holds, Uses, Deciding
<1>3. ~AfterRun(t)
  BY <1>1 DEF AfterRun
<1> QED
  BY <1>0, <1>1, <1>2, <1>3, DecisionMove

LEMMA DecisionSave ==
    ASSUME IndInv, DecisionInv, NEW t \in Executors \cup Humans, NEW e \in Row,
           t \in Executors => Uses(t) /\ (AfterRun(t) => e.status = "executed"),
           t \in Humans => Deciding(t), stage[t] # "update",
           Save(t, e), UNCHANGED <<rows, log>>
    PROVE  DecisionInv'
<1>0. t \in Requests /\ t \notin Validators
  BY CommandsAssumption DEF Requests
<1>1. /\ OthersKeep(t) /\ stage'[t] = "update" /\ req'[t] = req[t]
      /\ entity'[t] = e /\ selected'[t] = rows[req[t].id]
  BY <1>0 DEF Save, Go, IndInv, TypeOK, OthersKeep
<1>2. /\ t \in Executors => rows[req[t].id].status = "approved"
      /\ t \in Humans => rows[req[t].id].status = "pending"
  BY DEF DecisionInv, HandsInv
<1>3. Holds(t)'
  BY <1>0, <1>1, <1>2 DEF Holds
<1>4. t \in Executors /\ AfterRun(t) => AfterRun(t)'
  BY <1>1 DEF AfterRun
<1> QED
  BY <1>0, <1>1, <1>3, <1>4, DecisionMove

\* A request that ends without a trace.
LEMMA DecisionAnswer ==
    ASSUME IndInv, DecisionInv, NEW t \in Requests, Answer(t), UNCHANGED <<rows, log>>,
           t \in Executors => ~AfterRun(t)
    PROVE  DecisionInv'
<1>1. OthersKeep(t) /\ stage'[t] = "idle"
  BY AnswerFacts DEF IndInv
<1>2. Holds(t)'
  BY <1>1 DEF Holds, Uses, Deciding
<1> QED
  BY <1>1, <1>2, DecisionMove

\* The save after a run is lost.
LEMMA DecisionLost ==
    ASSUME IndInv, DecisionInv, NEW t \in Requests, Answer(t), UNCHANGED rows, Log(t, "lost"),
           AfterRun(t)
    PROVE  DecisionInv'
<1> DEFINE en == [event |-> "lost", id |-> req[t].id, command |-> req[t].command, at |-> now]
<1>1. OthersKeep(t) /\ stage'[t] = "idle"
  BY AnswerFacts DEF IndInv
<1>2. HandsInv'
  <2>1. Holds(t)'
    BY <1>1 DEF Holds, Uses, Deciding
  <2> QED
    BY <1>1, <2>1, HandsMove DEF DecisionInv
<1>3. OnePending'
  BY DEF DecisionInv, OnePending, Ids
<1>4. en \in Entry /\ en.event = "lost" /\ en.id = req[t].id /\ log' = Append(log, en)
  BY DEF IndInv, TypeOK, Entry, Log
<1> HIDE DEF en
<1>5. Len(log') = Len(log) + 1 /\ log'[Len(log')] = en
  BY <1>4, Logged
<1>6. \A u \in Executors : AfterRun(u) =>
         \/ AfterRun(u)' /\ req'[u].id = req[u].id
         \/ Len(log') = Len(log) + 1 /\ log'[Len(log')].event = "lost" /\ log'[Len(log')].id = req[u].id
  BY <1>1, <1>4, <1>5 DEF OthersKeep, AfterRun, Requests
<1>7. Settles(en)
  BY <1>4 DEF Settles
<1>8. SettledLog'
  BY <1>4, <1>6, <1>7, LogStaysSettled DEF DecisionInv
<1>9. RejectedNeverRuns' /\ RunsOnce'
  BY <1>4, RunsStand DEF DecisionInv
<1> QED
  BY <1>2, <1>3, <1>8, <1>9 DEF DecisionInv

\* The UPDATE writes the status that the request decided on.
LEMMA StatusWritten ==
    ASSUME IndInv, HandsInv, NEW t \in Executors \cup Humans, stage[t] = "update", Updated(t)
    PROVE  LET id == req[t].id IN
           /\ id \in Ids /\ Ids' = Ids /\ \A k \in Ids : k # id => rows'[k] = rows[k]
           /\ rows'[id].command = rows[id].command /\ rows'[id].status = entity[t].status
           /\ entity[t].status # "pending"
           /\ t \in Executors => rows[id].status = "approved"
           /\ t \in Humans => rows[id].status = "pending"
<1> DEFINE id == req[t].id
           new == Saved(rows[id], selected[t], entity[t])
<1>0. t \in Requests
  BY DEF Requests
<1>1. /\ rows \in Seq(Row) /\ id \in Ids /\ id \in Nat
      /\ rows[id] \in Row /\ selected[t] \in Row /\ entity[t] \in Row
      /\ entity[t].command = rows[id].command /\ selected[t].command = rows[id].command
  BY <1>0 DEF IndInv, TypeOK, ApprovalInv, CopyInv, Ids
<1>2. /\ new \in Row
      /\ new.command = IF entity[t].command # selected[t].command THEN entity[t].command ELSE rows[id].command
      /\ new.status = IF entity[t].status # selected[t].status THEN entity[t].status ELSE rows[id].status
  BY <1>1, SavedColumns DEF Columns
<1>3. /\ entity[t].status # "pending"
      /\ t \in Executors => rows[id].status = "approved"
      /\ t \in Humans => rows[id].status = "pending"
      /\ selected[t].status = rows[id].status
  BY DEF IndInv, ApprovalInv, ExecutorInv, HumanInv, HandsInv, Uses, Deciding
<1>4. rows' = [rows EXCEPT ![id] = new]
  BY DEF Updated
<1> HIDE DEF new
<1>5. /\ rows' \in Seq(Row) /\ Len(rows') = Len(rows) /\ rows'[id] = new
      /\ \A k \in Ids : k # id => rows'[k] = rows[k]
  BY <1>1, <1>2, <1>4 DEF Ids
<1> QED
  BY <1>1, <1>2, <1>3, <1>5 DEF Ids

\* Statuses move forward, and no row changes its command or becomes pending.
LEMMA DecisionUpdate ==
    ASSUME OneEach, IndInv, DecisionInv, NEW t \in Executors \cup Humans, stage[t] = "update",
           Updated(t), Answer(t),
           t \in Executors => UNCHANGED log,
           t \in Humans => Log(t, entity[t].status)
    PROVE  DecisionInv'
<1> DEFINE id == req[t].id
           en == [event |-> entity[t].status, id |-> id, command |-> req[t].command, at |-> now]
<1>0. t \in Requests /\ t \notin Validators /\ (t \in Executors => t \notin Humans)
  BY CommandsAssumption DEF Requests
<1>1. /\ id \in Ids /\ Ids' = Ids /\ \A k \in Ids : k # id => rows'[k] = rows[k]
      /\ rows'[id].command = rows[id].command /\ rows'[id].status = entity[t].status
      /\ entity[t].status # "pending"
      /\ t \in Executors => rows[id].status = "approved"
      /\ t \in Humans => rows[id].status = "pending"
  BY StatusWritten DEF DecisionInv
<1>2. OthersKeep(t) /\ stage'[t] = "idle"
  BY <1>0, AnswerFacts DEF IndInv
<1>3. \A k \in Ids : /\ rows'[k].command = rows[k].command
                     /\ rows'[k].status = "pending" => rows[k].status = "pending"
  BY <1>1
<1>4. HandsInv'
  <2>1. ASSUME NEW u \in Executors
        PROVE  (Uses(u) => rows[req[u].id].status = "approved")'
               /\ (stage[u] = "update" => selected[u].status = "approved")'
    <3>1. CASE u = t
      BY <1>2, <3>1 DEF Uses
    <3>2. CASE u # t
      <4>1. t \in Humans /\ u \in Requests
        BY <3>2 DEF OneEach, Requests
      <4>2. /\ stage'[u] = stage[u] /\ req'[u] = req[u] /\ entity'[u] = entity[u]
            /\ selected'[u] = selected[u]
        BY <1>2, <3>2, <4>1 DEF OthersKeep
      <4>3. Uses(u) => req[u].id \in Ids
        BY <4>1 DEF IndInv, ApprovalInv, CopyInv, Uses
      <4>4. /\ Uses(u) => rows[req[u].id].status = "approved"
            /\ stage[u] = "update" => selected[u].status = "approved"
        BY DEF DecisionInv, HandsInv
      <4> QED
        BY <1>1, <4>1, <4>2, <4>3, <4>4 DEF Uses
    <3> QED
      BY <3>1, <3>2
  <2>2. ASSUME NEW h \in Humans
        PROVE  (Deciding(h) => rows[req[h].id].status = "pending")'
               /\ (stage[h] = "update" => selected[h].status = "pending")'
    <3>1. CASE h = t
      BY <1>2, <3>1 DEF Deciding
    <3>2. CASE h # t
      <4>1. t \in Executors /\ h \in Requests
        BY <3>2 DEF OneEach, Requests
      <4>2. /\ stage'[h] = stage[h] /\ req'[h] = req[h] /\ entity'[h] = entity[h]
            /\ selected'[h] = selected[h]
        BY <1>2, <3>2, <4>1 DEF OthersKeep
      <4>3. Deciding(h) => req[h].id \in Ids
        BY <4>1 DEF IndInv, ApprovalInv, CopyInv, Deciding
      <4>4. /\ Deciding(h) => rows[req[h].id].status = "pending"
            /\ stage[h] = "update" => selected[h].status = "pending"
        BY DEF DecisionInv, HandsInv
      <4> QED
        BY <1>1, <4>1, <4>2, <4>3, <4>4 DEF Deciding
    <3> QED
      BY <3>1, <3>2
  <2>3. ASSUME NEW v \in Validators, stage'[v] = "create", NEW k \in Ids', rows'[k].command = req'[v].command
        PROVE  rows'[k].status # "pending"
    <3>1. v # t /\ v \in Requests
      BY <1>0 DEF Requests
    <3>2. stage[v] = "create" /\ req'[v] = req[v]
      BY <1>2, <2>3, <3>1 DEF OthersKeep
    <3> QED
      BY <1>1, <1>3, <2>3, <3>2 DEF DecisionInv, HandsInv
  <2> QED
    BY <2>1, <2>2, <2>3 DEF HandsInv
<1>5. OnePending'
  BY <1>1, <1>3 DEF DecisionInv, OnePending
<1>6. t \in Humans => en \in Entry /\ en.event \in {"approved", "rejected"} /\ log' = Append(log, en) /\ Settles(en)
  <2> SUFFICES ASSUME t \in Humans
               PROVE  en \in Entry /\ en.event \in {"approved", "rejected"} /\ log' = Append(log, en) /\ Settles(en)
    OBVIOUS
  <2>1. entity[t].status \in {"approved", "rejected"} /\ log' = Append(log, en)
    BY DEF IndInv, ApprovalInv, HumanInv, Log
  <2>2. en \in Entry
    BY <1>0, <2>1 DEF IndInv, TypeOK, Entry
  <2> QED
    BY <1>1, <2>1, <2>2 DEF Settles
<1>7. \A u \in Executors : AfterRun(u) =>
         (AfterRun(u)' /\ req'[u].id = req[u].id) \/ rows'[req[u].id].status = "executed"
  <2> SUFFICES ASSUME NEW u \in Executors, AfterRun(u)
               PROVE  (AfterRun(u)' /\ req'[u].id = req[u].id) \/ rows'[req[u].id].status = "executed"
    OBVIOUS
  <2>1. CASE u = t
    BY <1>1, <2>1 DEF AfterRun
  <2>2. CASE u # t
    BY <1>2, <2>2 DEF OthersKeep, AfterRun, Requests
  <2> QED
    BY <2>1, <2>2
<1>8. \A k \in Ids : rows[k].status \in {"rejected", "executed"} => rows'[k].status = rows[k].status
  BY <1>1
<1> HIDE DEF en
<1>9. SettledLog'
  BY <1>6, <1>7, <1>8, LogStaysSettled DEF DecisionInv
<1>10. RejectedNeverRuns' /\ RunsOnce'
  BY <1>6, RunsStand DEF DecisionInv
<1> QED
  BY <1>4, <1>5, <1>9, <1>10 DEF DecisionInv

\* A command that starts: no run of its approval is on its way, it was not rejected, and an earlier
\* run of it is one whose save was lost.
LEMMA DecisionRun ==
    ASSUME OneEach, IndInv, DecisionInv, NEW t \in Executors, stage[t] = "check",
           entity[t].status = "approved", Log(t, "run"), Go(t, "run"),
           UNCHANGED <<rows, req, entity, selected>>
    PROVE  DecisionInv'
<1> DEFINE en == [event |-> "run", id |-> req[t].id, command |-> req[t].command, at |-> now]
           n == Len(log) + 1
<1>0. t \in Requests
  BY DEF Requests
<1>1. OthersKeep(t) /\ stage'[t] = "run" /\ req'[t] = req[t] /\ entity'[t] = entity[t]
  BY <1>0 DEF Go, IndInv, TypeOK, OthersKeep
<1>2. rows[req[t].id].status = "approved" /\ Uses(t)
  BY DEF DecisionInv, HandsInv, Uses
<1>3. HandsInv'
  <2>1. t \notin Humans /\ t \notin Validators
    BY CommandsAssumption
  <2>2. Holds(t)'
    BY <1>1, <1>2, <2>1 DEF Holds
  <2> QED
    BY <1>0, <1>1, <2>2, HandsMove DEF DecisionInv
<1>4. OnePending'
  BY DEF DecisionInv, OnePending, Ids
<1>5. en \in Entry /\ en.event = "run" /\ en.id = req[t].id /\ log' = Append(log, en)
  BY <1>0 DEF IndInv, TypeOK, Entry, Log
<1> HIDE DEF en
<1>6. SettledLog'
  <2>1. AfterRun(t)' /\ req'[t].id = en.id
    BY <1>1, <1>5 DEF AfterRun
  <2>2. Settles(en)
    BY <1>5, <2>1 DEF Settles
  <2>3. \A u \in Executors : ~AfterRun(u)
    BY DEF OneEach, AfterRun
  <2> QED
    BY <1>5, <2>2, <2>3, LogStaysSettled DEF DecisionInv
<1>7. /\ Len(log) \in Nat /\ DOMAIN log = 1 .. Len(log) /\ DOMAIN log' = 1 .. n
      /\ (\A i \in DOMAIN log : log'[i] = log[i]) /\ log'[n] = en
  BY <1>5, Logged
<1>8. ASSUME NEW i \in DOMAIN log, log[i].id = en.id
      PROVE  /\ log[i].event # "rejected"
             /\ log[i].event = "run" =>
                  \E k \in i .. Len(log) : log[k].event = "lost" /\ log[k].id = log[i].id
  <2>1. \A u \in Executors : ~AfterRun(u)
    BY DEF OneEach, AfterRun
  <2> QED
    BY <1>2, <1>5, <1>8, <2>1 DEF DecisionInv, SettledLog, UsedUp
<1>9. \A i \in 1 .. n, j \in 1 .. n : i < j => i \in DOMAIN log /\ (j \in DOMAIN log \/ j = n)
  BY <1>7
<1>10. \A i \in DOMAIN log, j \in DOMAIN log : \A k \in i .. j : k \in DOMAIN log
  BY <1>7
<1> HIDE DEF n
<1>11. RejectedNeverRuns'
  <2> SUFFICES ASSUME NEW i \in 1 .. n, NEW j \in 1 .. n, i < j, log'[i].event = "rejected",
                      log'[j].event = "run"
               PROVE  log'[i].id # log'[j].id
    BY <1>7 DEF RejectedNeverRuns
  <2>1. i \in DOMAIN log /\ log'[i] = log[i]
    BY <1>7, <1>9
  <2>2. CASE j = n
    BY <1>7, <1>8, <2>1, <2>2
  <2>3. CASE j \in DOMAIN log
    BY <1>7, <2>1, <2>3 DEF DecisionInv, RejectedNeverRuns
  <2> QED
    BY <1>9, <2>2, <2>3
<1>12. RunsOnce'
  <2> SUFFICES ASSUME NEW i \in 1 .. n, NEW j \in 1 .. n, i < j, log'[i].event = "run",
                      log'[j].event = "run", log'[i].id = log'[j].id
               PROVE  \E k \in i .. j : log'[k].event = "lost" /\ log'[k].id = log'[i].id
    BY <1>7 DEF RunsOnce
  <2>1. i \in DOMAIN log /\ log'[i] = log[i]
    BY <1>7, <1>9
  <2>2. CASE j = n
    <3>1. PICK k \in i .. Len(log) : log[k].event = "lost" /\ log[k].id = log[i].id
      BY <1>7, <1>8, <2>1, <2>2
    <3>2. k \in DOMAIN log /\ k \in i .. j
      BY <1>7, <2>1, <2>2 DEF n
    <3> QED
      BY <1>7, <2>1, <3>1, <3>2
  <2>3. CASE j \in DOMAIN log
    <3>1. PICK k \in i .. j : log[k].event = "lost" /\ log[k].id = log[i].id
      BY <1>7, <2>1, <2>3 DEF DecisionInv, RunsOnce
    <3> QED
      BY <1>7, <1>10, <2>1, <2>3, <3>1
  <2> QED
    BY <1>9, <2>2, <2>3
<1> QED
  BY <1>3, <1>4, <1>6, <1>11, <1>12 DEF DecisionInv

\* A new approval is the only pending one of its command.
LEMMA DecisionCreate ==
    ASSUME OneEach, IndInv, DecisionInv, NEW t \in Validators, Create(t)
    PROVE  DecisionInv'
<1> DEFINE new == [Blank EXCEPT !.command = req[t].command, !.expiresAt = now + TTL]
           n == Len(rows) + 1
<1>0. t \in Requests /\ t \notin Executors /\ t \notin Humans
  BY CommandsAssumption DEF Requests
<1>1. OthersKeep(t) /\ stage'[t] = "idle"
  BY <1>0, AnswerFacts DEF IndInv, Create
<1>2. new.command = req[t].command
  BY BlankIsRow DEF Row
<1>3. rows \in Seq(Row) /\ rows' = Append(rows, new)
  BY DEF IndInv, TypeOK, Create
<1> HIDE DEF new
<1>4. /\ Ids = 1 .. Len(rows) /\ Ids' = 1 .. n /\ rows'[n] = new /\ \A k \in Ids : rows'[k] = rows[k]
      /\ \A k \in Ids' : k \in Ids \/ k = n
      /\ n \notin Ids /\ Ids \subseteq Ids'
  BY <1>3 DEF Ids
<1> HIDE DEF n
<1>5. HandsInv'
  <2>1. ASSUME NEW u \in Executors \cup Humans
        PROVE  /\ stage'[u] = stage[u] /\ req'[u] = req[u] /\ entity'[u] = entity[u] /\ selected'[u] = selected[u]
               /\ stage[u] \in {"check", "decide", "run", "update"} => rows'[req[u].id] = rows[req[u].id]
    <3>1. u \in Requests /\ u # t
      BY <1>0 DEF Requests
    <3> QED
      BY <1>1, <1>4, <3>1 DEF OthersKeep, IndInv, ApprovalInv, CopyInv
  <2>2. \A v \in Validators : stage'[v] # "create"
    BY <1>1 DEF OneEach
  <2> QED
    BY <2>1, <2>2 DEF DecisionInv, HandsInv, Uses, Deciding
<1>6. OnePending'
  <2>1. \A k \in Ids : rows[k].command = new.command => rows[k].status # "pending"
    BY <1>2 DEF DecisionInv, HandsInv, Create
  <2> QED
    BY <1>4, <2>1 DEF DecisionInv, OnePending
<1>7. UNCHANGED log
  BY DEF Create
<1>8. \A u \in Executors : AfterRun(u) => AfterRun(u)' /\ req'[u].id = req[u].id
  BY <1>0, <1>1 DEF OthersKeep, AfterRun, Requests
<1>9. SettledLog'
  BY <1>4, <1>7, <1>8, LogStaysSettled DEF DecisionInv
<1>10. RejectedNeverRuns' /\ RunsOnce'
  BY <1>7, RunsStand DEF DecisionInv
<1> QED
  BY <1>5, <1>6, <1>9, <1>10 DEF DecisionInv

LEMMA DecisionNext ==
    ASSUME OneEach, IndInv, DecisionInv, [Next]_vars
    PROVE  DecisionInv'
<1>1. ASSUME NEW t \in Validators, Create(t) PROVE DecisionInv'
  BY <1>1, DecisionCreate
<1>2. ASSUME NEW t \in Validators, NEW c \in Commands, Validate(t, c) PROVE DecisionInv'
  <2>0. t \in Requests /\ t \notin Executors /\ t \notin Humans
    BY CommandsAssumption DEF Requests
  <2>1. OthersKeep(t) /\ UNCHANGED <<rows, log>> /\ req'[t].command = c
    BY <1>2, <2>0 DEF Validate, Go, IndInv, TypeOK, OthersKeep
  <2>2. \A id \in Ids : rows[id].command = c => rows[id].status # "pending"
    BY <1>2 DEF Validate, Pending
  <2>3. Holds(t)'
    BY <2>0, <2>1, <2>2 DEF Holds, Ids
  <2> QED
    BY <2>0, <2>1, <2>3, DecisionMove
<1>3. ASSUME NEW t \in Executors, NEW c \in Commands, NEW id \in Ids, Execute(t, c, id) PROVE DecisionInv'
  BY <1>3, CommandsAssumption, DecisionFind DEF Execute
<1>4. ASSUME NEW t \in Executors, Check(t) PROVE DecisionInv'
  <2>0. t \in Requests /\ ~AfterRun(t) /\ stage[t] = "check" /\ t \notin Humans
    BY <1>4, CommandsAssumption DEF Check, AfterRun, Requests
  <2>1. CASE Answer(t) /\ UNCHANGED log
    BY <1>4, <2>0, <2>1, DecisionAnswer DEF Check
  <2>2. CASE /\ entity[t].status = "approved" /\ UNCHANGED log
             /\ Save(t, [entity[t] EXCEPT !.status = "expired"])
    <3> DEFINE e == [entity[t] EXCEPT !.status = "expired"]
    <3>1. e \in Row
      <4>1. entity[t] \in Row
        BY <2>0 DEF IndInv, TypeOK
      <4> QED
        BY <4>1 DEF Row, Statuses
    <3>2. Uses(t)
      BY <2>0, <2>2 DEF Uses
    <3> HIDE DEF e
    <3>3. Save(t, e)
      BY <2>2 DEF e
    <3> QED
      BY <1>4, <2>0, <2>2, <3>1, <3>2, <3>3, DecisionSave DEF Check
  <2>3. CASE /\ entity[t].status = "approved" /\ Log(t, "run") /\ Go(t, "run")
             /\ UNCHANGED <<req, entity, selected>>
    BY <1>4, <2>0, <2>3, DecisionRun DEF Check
  <2> QED
    BY <1>4, <2>1, <2>2, <2>3 DEF Check
<1>5. ASSUME NEW t \in Executors, Finish(t) PROVE DecisionInv'
  <2> DEFINE e == [entity[t] EXCEPT !.status = "executed"]
  <2>1. e \in Row /\ e.status = "executed"
    <3>1. entity[t] \in Row
      BY DEF IndInv, TypeOK, Requests
    <3> QED
      BY <3>1 DEF Row, Statuses
  <2>2. Uses(t) /\ t \notin Humans
    BY <1>5, CommandsAssumption DEF Finish, Uses
  <2> HIDE DEF e
  <2>3. Save(t, e)
    BY <1>5 DEF Finish, e
  <2> QED
    BY <1>5, <2>1, <2>2, <2>3, DecisionSave DEF Finish
<1>6. ASSUME NEW t \in Executors, ExecuteSaved(t) PROVE DecisionInv'
  BY <1>6, CommandsAssumption, DecisionUpdate DEF ExecuteSaved
<1>7. ASSUME NEW h \in Humans, NEW id \in Ids, Decide(h, id) PROVE DecisionInv'
  <2>1. rows[id].command \in Commands /\ h \notin Executors
    BY RowOf, CommandsAssumption DEF IndInv
  <2> QED
    BY <1>7, <2>1, DecisionFind DEF Decide
<1>8. ASSUME NEW h \in Humans, stage[h] = "decide", entity[h].status = "pending", UNCHANGED <<rows, log>>,
             NEW e \in Row, Save(h, e)
      PROVE  DecisionInv'
  <2>1. Deciding(h) /\ h \notin Executors
    BY <1>8, CommandsAssumption DEF Deciding
  <2> QED
    BY <1>8, <2>1, DecisionSave
<1>9. ASSUME NEW h \in Humans, Approve(h) PROVE DecisionInv'
  <2>1. [entity[h] EXCEPT !.status = "approved", !.approvedBy = TRUE, !.expiresAt = now + TTL] \in Row
    <3>1. entity[h] \in Row /\ now + TTL \in Nat
      BY CommandsAssumption DEF IndInv, TypeOK, Requests
    <3>2. \A x \in Nat :
            [entity[h] EXCEPT !.status = "approved", !.approvedBy = TRUE, !.expiresAt = x] \in Row
      BY <3>1 DEF Row, Statuses
    <3> QED
      BY <3>1, <3>2
  <2> QED
    BY <1>8, <1>9, <2>1 DEF Approve
<1>10. ASSUME NEW h \in Humans, Reject(h) PROVE DecisionInv'
  <2>1. [entity[h] EXCEPT !.status = "rejected", !.rejectedBy = TRUE] \in Row
    BY DEF IndInv, TypeOK, Row, Statuses, Requests
  <2> QED
    BY <1>8, <1>10, <2>1 DEF Reject
<1>11. ASSUME NEW h \in Humans, Conflict(h) PROVE DecisionInv'
  BY <1>11, CommandsAssumption, DecisionAnswer DEF Conflict, Requests
<1>12. ASSUME NEW h \in Humans, DecisionSaved(h) PROVE DecisionInv'
  BY <1>12, CommandsAssumption, DecisionUpdate DEF DecisionSaved
<1>13. ASSUME NEW t \in Requests, SaveLost(t) PROVE DecisionInv'
  BY <1>13, DecisionAnswer, DecisionLost DEF SaveLost
<1>14. CASE UNCHANGED <<rows, stage, req, entity, selected, log>>
  <2>1. HandsInv'
    BY <1>14 DEF DecisionInv, HandsInv, Uses, Deciding, Ids
  <2>2. OnePending'
    BY <1>14 DEF DecisionInv, OnePending, Ids
  <2>3. SettledLog'
    BY <1>14, LogStaysSettled DEF DecisionInv, AfterRun
  <2>4. RejectedNeverRuns' /\ RunsOnce'
    BY <1>14, RunsStand DEF DecisionInv
  <2> QED
    BY <2>1, <2>2, <2>3, <2>4 DEF DecisionInv
<1> QED
  BY <1>1, <1>2, <1>3, <1>4, <1>5, <1>6, <1>7, <1>9, <1>10, <1>11, <1>12, <1>13, <1>14 DEF Next, vars, Tick

\* While validations, executions and decisions come one at a time each (and overlap each other): a
\* rejected command does not run, an approved one runs again only if the save of its run was lost,
\* and a command waits for one decision.
THEOREM DecisionsAreFinal == ASSUME OneEach PROVE Spec => []DecisionsStand
<1>1. Init => IndInv /\ DecisionInv
  <2> SUFFICES ASSUME Init PROVE DecisionInv
    BY InitIndInv
  <2>1. HandsInv /\ OnePending
    BY DEF Init, HandsInv, OnePending, Uses, Deciding, Ids, Requests
  <2>2. SettledLog /\ RejectedNeverRuns /\ RunsOnce
    BY DEF Init, SettledLog, RejectedNeverRuns, RunsOnce
  <2> QED
    BY <2>1, <2>2 DEF DecisionInv
<1>2. IndInv /\ DecisionInv /\ [Next]_vars => IndInv' /\ DecisionInv'
  BY NextKeeps, DecisionNext
<1>3. DecisionInv => DecisionsStand
  <2> SUFFICES ASSUME DecisionInv, NEW c \in Commands PROVE Cardinality(Pending(c)) <= 1
    BY DEF DecisionsStand, OnePendingPerCommand, DecisionInv
  <2>1. \A i, j \in Pending(c) : i = j
    BY DEF Pending, DecisionInv, OnePending
  <2>2. CASE Pending(c) = {}
    BY <2>2, FS_EmptySet
  <2>3. CASE Pending(c) # {}
    <3>1. PICK i \in Pending(c) : Pending(c) = {i}
      BY <2>1, <2>3
    <3>2. Cardinality({i}) = 1
      BY FS_Singleton
    <3> QED
      BY <3>1, <3>2
  <2> QED
    BY <2>2, <2>3
<1> QED
  BY <1>1, <1>2, <1>3, PTL DEF Spec

-----------------------------------------------------------------------------
(* Tokens *)

\* What save writes is a row again, column by column the entity's or the row's.
LEMMA SavedToken ==
    ASSUME NEW r \in TokenRow, NEW sel \in TokenRow, NEW e \in TokenRow
    PROVE  /\ Saved(r, sel, e) \in TokenRow
           /\ \A c \in {"isActive", "revokedAt", "scopes"} :
                Saved(r, sel, e)[c] = IF e[c] # sel[c] THEN e[c] ELSE r[c]
<1>1. DOMAIN r = {"isActive", "revokedAt", "scopes"}
  BY DEF TokenRow
<1>2. Saved(r, sel, e) =
        [column \in {"isActive", "revokedAt", "scopes"} |->
            IF e[column] # sel[column] THEN e[column] ELSE r[column]]
  BY <1>1 DEF Saved
<1>3. Saved(r, sel, e) \in TokenRow
  BY <1>2 DEF TokenRow
<1> QED
  BY <1>2, <1>3

\* A revoked copy does not bring a revoked row back, whatever was selected in between ...
LEMMA SavedKeepsRevoked ==
    ASSUME NEW r \in TokenRow, NEW sel \in TokenRow, NEW e \in TokenRow, Revoked(r), Revoked(e)
    PROVE  Revoked(Saved(r, sel, e))
BY SavedToken DEF Revoked, TokenRow

\* ... and it revokes the row it was compared with.
LEMMA SavedRevokes ==
    ASSUME NEW r \in TokenRow, NEW e \in TokenRow, Revoked(e)
    PROVE  Revoked(Saved(r, r, e))
BY SavedToken DEF Revoked, TokenRow

LEMMA NewRowIsRow == NewRow \in TokenRow
BY TokensAssumption DEF NewRow, TokenRow, Never

TokenInv == TokensTypeOK /\ LoneInv

\* findOne of any request, unless it authenticates with a revoked token.
LEMMA TokenFindKeeps ==
    ASSUME TokenInv, NEW t \in Holders, NEW st \in {"compare", "change"}, FindToken(t, st),
           t \in Agents => Usable(row)
    PROVE  TokenInv'
<1>1. TokensTypeOK'
  BY DEF TokenInv, TokensTypeOK, FindToken, MoveOn, TokenStages
<1>2. LoneInv'
  BY TokensAssumption
  DEF TokenInv, TokensTypeOK, LoneInv, FindToken, MoveOn, Holders, Revoked, Usable
<1> QED
  BY <1>1, <1>2 DEF TokenInv

\* The first statement of save: the copy a request asks the database to keep.
LEMMA TokenSaveKeeps ==
    ASSUME TokenInv, NEW t \in Holders, NEW e \in TokenRow, SaveToken(t, e), at[t] \in {"compare", "change"},
           NEW a \in {"on", "off", "keep"}, active' = [active EXCEPT ![t] = a],
           a = "off" => Revoked(e), t \in Agents => a = "keep",
           a = "keep" /\ Revoked(copy[t]) => Revoked(e),
           stamps' \in 0 .. MaxRevocations, UNCHANGED <<row, alone, told>>
    PROVE  TokenInv'
<1>1. TokensTypeOK'
  BY DEF TokenInv, TokensTypeOK, SaveToken, MoveOn, TokenStages
<1>2. LoneInv'
  BY DEF TokenInv, TokensTypeOK, LoneInv, SaveToken, MoveOn, Holders
<1> QED
  BY <1>1, <1>2 DEF TokenInv
\* A request that ends, and has written its copy or nothing.
LEMMA EndKeeps ==
    ASSUME TokenInv, NEW t \in Holders, at[t] # "idle", Forget(t), UNCHANGED stamps,
           \/ UNCHANGED <<row, told>>
           \/ at[t] = "update" /\ TokenUpdated(t) /\ UNCHANGED told /\ active[t] # "on"
           \/ /\ at[t] = "update" /\ TokenUpdated(t)
              /\ told' \in {"revoked", "active"}
           \/ /\ at[t] = "update" /\ TokenUpdated(t)
              /\ told' = "revoked alone" /\ active[t] = "off" /\ alone[t]
    PROVE  TokenInv'
<1>1. copy[t] \in TokenRow /\ again[t] \in TokenRow /\ row \in TokenRow
  BY DEF TokenInv, TokensTypeOK
<1>2. row' \in TokenRow
  <2>1. Saved(row, again[t], copy[t]) \in TokenRow
    BY <1>1, SavedToken
  <2> QED
    BY <1>1, <2>1 DEF TokenUpdated
<1>3. TokensTypeOK'
  BY <1>2, NewRowIsRow DEF TokenInv, TokensTypeOK, Forget, MoveOn, TokenStages
<1>4. \A u \in Holders : u # t =>
        at'[u] = at[u] /\ copy'[u] = copy[u] /\ again'[u] = again[u]
          /\ active'[u] = active[u] /\ alone'[u] = alone[u]
  BY DEF TokenInv, TokensTypeOK, Forget, MoveOn
<1>5. at'[t] = "idle" /\ active'[t] = "keep" /\ alone'[t] = FALSE
  BY DEF TokenInv, TokensTypeOK, Forget, MoveOn
\* A request that has the token to itself is the one that ends.
<1>6. \A u \in Holders : ~alone'[u]
  BY <1>4, <1>5 DEF TokenInv, LoneInv
<1>7. \A u \in Holders :
        /\ active'[u] # "keep" => at'[u] = "update"
        /\ active'[u] = "off" => Revoked(copy'[u])
        /\ u \in Agents => active'[u] = "keep"
  BY <1>4, <1>5 DEF TokenInv, LoneInv
<1>8. ASSUME told' = "revoked alone"
      PROVE  /\ Revoked(row')
             /\ \A u \in Holders : at'[u] # "idle" /\ active'[u] # "on" => Revoked(copy'[u])
             /\ \A u \in Agents : at'[u] = "idle"
  <2>1. CASE UNCHANGED <<row, told>>
    <3>1. /\ Revoked(row)
          /\ \A u \in Holders : at[u] # "idle" /\ active[u] # "on" => Revoked(copy[u])
          /\ \A u \in Agents : at[u] = "idle"
      BY <1>8, <2>1 DEF TokenInv, LoneInv
    <3>2. Revoked(row')
      BY <2>1, <3>1
    <3>3. \A u \in Holders : at'[u] # "idle" /\ active'[u] # "on" => Revoked(copy'[u])
      BY <1>4, <1>5, <3>1
    <3>4. \A u \in Agents : at'[u] = "idle"
      BY <1>4, <1>5, <3>1 DEF Holders
    <3> QED
      BY <3>2, <3>3, <3>4
  <2>2. CASE at[t] = "update" /\ TokenUpdated(t) /\ UNCHANGED told /\ active[t] # "on"
    <3>1. Revoked(row) /\ Revoked(copy[t])
      BY <1>8, <2>2 DEF TokenInv, LoneInv
    <3>2. Revoked(row')
      BY <1>1, <2>2, <3>1, SavedKeepsRevoked DEF TokenUpdated
    <3>3. /\ \A u \in Holders : at[u] # "idle" /\ active[u] # "on" => Revoked(copy[u])
          /\ \A u \in Agents : at[u] = "idle"
      BY <1>8, <2>2 DEF TokenInv, LoneInv
    <3>4. \A u \in Holders : at'[u] # "idle" /\ active'[u] # "on" => Revoked(copy'[u])
      BY <1>4, <1>5, <3>3
    <3>5. \A u \in Agents : at'[u] = "idle"
      BY <1>4, <1>5, <3>3 DEF Holders
    <3> QED
      BY <3>2, <3>4, <3>5
  <2>3. CASE at[t] = "update" /\ TokenUpdated(t) /\ active[t] = "off" /\ alone[t]
    <3>1. Revoked(copy[t]) /\ again[t] = row /\ \A u \in Holders : u # t => at[u] = "idle"
      BY <2>3 DEF TokenInv, LoneInv
    <3>2. Revoked(row')
      BY <1>1, <2>3, <3>1, SavedRevokes DEF TokenUpdated
    <3> QED
      BY <1>4, <1>5, <3>1, <3>2 DEF Holders
  <2> QED
    BY <1>8, <2>1, <2>2, <2>3
<1>9. LoneInv'
  BY <1>6, <1>7, <1>8 DEF LoneInv
<1> QED
  BY <1>3, <1>9 DEF TokenInv

\* A renaming leaves what the row says of a revocation.
LEMMA RenamedRow ==
  ASSUME NEW r \in TokenRow, NEW s \in Scopes
  PROVE  /\ [r EXCEPT !.scopes = s] \in TokenRow
         /\ [r EXCEPT !.scopes = s].isActive = r.isActive
         /\ [r EXCEPT !.scopes = s].revokedAt = r.revokedAt
<1>1. /\ r = [isActive |-> r.isActive, revokedAt |-> r.revokedAt, scopes |-> r.scopes]
      /\ r.isActive \in BOOLEAN /\ r.revokedAt \in 0 .. MaxRevocations
  BY DEF TokenRow
<1>2. [r EXCEPT !.scopes = s]
        = [isActive |-> r.isActive, revokedAt |-> r.revokedAt, scopes |-> s]
  BY <1>1
<1> QED
  BY <1>1, <1>2 DEF TokenRow

LEMMA TokensInitInv == TokensInit => TokenInv
BY NewRowIsRow, TokensAssumption
DEF TokensInit, TokenInv, TokensTypeOK, LoneInv, TokenStages

\* The invariant is kept by every request.
LEMMA TokensStep ==
    ASSUME TokenInv, [TokensNext]_tokenVars
    PROVE  TokenInv'
<1> USE DEF Holders
<1>a. ASSUME NEW t \in Holders PROVE copy[t] \in TokenRow
  BY DEF TokenInv, TokensTypeOK
<1>0. \A t \in Holders : /\ copy[t] \in TokenRow
                          /\ at[t] \in {"compare", "change"} => active[t] = "keep"
  BY <1>a DEF TokenInv, LoneInv
<1>1. ASSUME NEW t \in Agents, Lookup(t) PROVE TokenInv'
  BY <1>1, TokenFindKeeps DEF Lookup
<1>2. ASSUME NEW t \in Agents, Compare(t) PROVE TokenInv'
  <2>1. active' = [active EXCEPT ![t] = "keep"]
    BY <1>0, <1>2 DEF Compare, TokenInv, TokensTypeOK
  <2> QED
    BY <1>0, <1>2, <2>1, TokenSaveKeeps DEF Compare, TokenInv, TokensTypeOK
<1>3. ASSUME NEW t \in Agents, Authenticated(t) PROVE TokenInv'
  <2>1. active[t] # "on"
    BY DEF TokenInv, LoneInv
  <2> QED
    BY <1>3, <2>1, EndKeeps DEF Authenticated
<1>4. ASSUME NEW h \in Admins, Manage(h) PROVE TokenInv'
  BY <1>4, TokenFindKeeps, TokensAssumption DEF Manage
<1>5. ASSUME NEW h \in Admins, Delete(h) PROVE TokenInv'
  <2>0. copy[h].scopes \in Scopes
    <3>1. copy[h] \in TokenRow
      BY <1>a
    <3> QED
      BY <3>1 DEF TokenRow
  <2> DEFINE e == [isActive |-> FALSE, revokedAt |-> stamps + 1, scopes |-> copy[h].scopes]
  <2>1. stamps + 1 \in 0 .. MaxRevocations /\ stamps + 1 # Never
    <3>1. stamps \in 0 .. MaxRevocations /\ stamps < MaxRevocations
      BY <1>5 DEF Delete, TokenInv, TokensTypeOK
    <3> QED
      BY <3>1, TokensAssumption DEF Never
  <2>2. e \in TokenRow /\ Revoked(e)
    BY <2>0, <2>1 DEF TokenRow, Revoked
  <2>3. SaveToken(h, e) /\ stamps' \in 0 .. MaxRevocations
    BY <1>5, <2>1 DEF Delete
  <2> HIDE DEF e
  <2> QED
    BY <1>5, <2>2, <2>3, TokenSaveKeeps, TokensAssumption DEF Delete
<1>6. ASSUME NEW h \in Admins, Answered(h) PROVE TokenInv'
  <2>1. active[h] \in {"on", "off", "keep"}
    BY DEF TokenInv, TokensTypeOK
  <2> QED
    BY <1>6, <2>1, EndKeeps DEF Answered
<1>7. ASSUME NEW h \in Admins, NEW s \in Scopes, Rename(h, s) PROVE TokenInv'
  <2>0. copy[h] \in TokenRow
    BY <1>a
  <2> DEFINE e == [copy[h] EXCEPT !.scopes = s]
  <2>1. e \in TokenRow /\ (Revoked(copy[h]) => Revoked(e))
    <3>1. /\ e \in TokenRow
          /\ e.isActive = copy[h].isActive /\ e.revokedAt = copy[h].revokedAt
      BY <2>0, RenamedRow
    <3> QED
      BY <3>1 DEF Revoked
  <2>2. SaveToken(h, e) /\ active' = [active EXCEPT ![h] = "keep"]
    BY <1>0, <1>7 DEF Rename, TokenInv, TokensTypeOK
  <2> HIDE DEF e
  <2> QED
    BY <1>7, <2>1, <2>2, TokenSaveKeeps DEF Rename, TokenInv, TokensTypeOK
<1>8. ASSUME NEW h \in Admins, NEW s \in Scopes, Activate(h, s) PROVE TokenInv'
  <2>1. [isActive |-> TRUE, revokedAt |-> Never, scopes |-> s] \in TokenRow
    BY TokensAssumption DEF TokenRow, Never
  <2> QED
    BY <1>8, <2>1, TokenSaveKeeps, TokensAssumption DEF Activate, TokenInv, TokensTypeOK
<1>9. ASSUME NEW h \in Admins, NEW s \in Scopes, Deactivate(h, s) PROVE TokenInv'
  <2> DEFINE stamp == IF copy[h].revokedAt = Never THEN stamps' ELSE copy[h].revokedAt
             e == [isActive |-> FALSE, scopes |-> s, revokedAt |-> stamp]
  <2>1. stamps' \in 0 .. MaxRevocations /\ stamp \in 0 .. MaxRevocations /\ stamp # Never
    <3>1. stamps \in 0 .. MaxRevocations /\ copy[h].revokedAt \in 0 .. MaxRevocations
      BY <1>0 DEF TokenInv, TokensTypeOK, TokenRow
    <3>2. IF copy[h].revokedAt = Never THEN stamps < MaxRevocations /\ stamps' = stamps + 1
                                         ELSE UNCHANGED stamps
      BY <1>9 DEF Deactivate
    <3> QED
      BY <3>1, <3>2, TokensAssumption DEF Never
  <2>2. e \in TokenRow /\ Revoked(e)
    BY <2>1 DEF TokenRow, Revoked
  <2>3. SaveToken(h, e)
    BY <1>9 DEF Deactivate
  <2> HIDE DEF e, stamp
  <2> QED
    BY <1>9, <2>1, <2>2, <2>3, TokenSaveKeeps, TokensAssumption DEF Deactivate
<1>10. ASSUME NEW t \in Holders, Abandoned(t) PROVE TokenInv'
  BY <1>10, EndKeeps DEF Abandoned
<1>11. CASE UNCHANGED tokenVars
  BY <1>11 DEF tokenVars, TokenInv, TokensTypeOK, LoneInv
<1> QED
  BY <1>1, <1>2, <1>3, <1>4, <1>5, <1>6, <1>7, <1>8, <1>9, <1>10, <1>11 DEF TokensNext

\* A revocation that had the token to itself is not undone by any request that is not answered
\* as an activation: the copies taken after it are revoked, and save brings back only what a
\* copy says.
THEOREM LoneRevocationStays == TokensSpec => []LoneRevocationSticks
<1>1. TokensInit => TokenInv
  BY TokensInitInv
<1>2. TokenInv /\ [TokensNext]_tokenVars => TokenInv'
  BY TokensStep
<1>3. TokenInv => LoneRevocationSticks
  BY DEF TokenInv, LoneInv, Revoked, LoneRevocationSticks
<1> QED
  BY <1>1, <1>2, <1>3, PTL DEF TokensSpec
-----------------------------------------------------------------------------
(* Folds over sequences *)

\* Induction over the naturals, for a set.
LEMMA NatSetInduction ==
    ASSUME NEW S, 0 \in S, \A n \in Nat : n \in S => n + 1 \in S
    PROVE  Nat \subseteq S
<1> DEFINE less == OpToRel(<, Nat)
           T == {n \in Nat : n \notin S}
<1> SUFFICES ASSUME T # {} PROVE FALSE
  OBVIOUS
<1>1. \A y, z \in Nat : y < z => <<y, z>> \in less
  BY DEF OpToRel
<1>2. IsWellFoundedOn(less, Nat)
  BY NatLessThanWellFounded
<1> HIDE DEF less
<1>3. PICK x \in T : \A y \in T : <<y, x>> \notin less
  <2>1. T \subseteq Nat
    OBVIOUS
  <2> HIDE DEF T
  <2> QED
    BY <1>2, <2>1, WFMin
<1>4. x \in Nat \ {0} /\ x - 1 \in Nat /\ x - 1 < x /\ (x - 1) + 1 = x
  OBVIOUS
<1>5. x - 1 \in S
  BY <1>1, <1>3, <1>4
<1> QED
  BY <1>3, <1>4, <1>5

\* A step on the elements of a set, taken n times.
Steps(T, base, step, n, h) ==
    h \in [0 .. n -> T] /\ h[0] = base /\ \A i \in 1 .. n : h[i] = step[i][h[i - 1]]

LEMMA Iterated ==
    ASSUME NEW T, NEW base \in T, NEW step, step \in [Nat -> [T -> T]], NEW n \in Nat
    PROVE  \E h : Steps(T, base, step, n, h)
<1> DEFINE Good(m, h) == h[0] = base /\ \A i \in 1 .. m : h[i] = step[i][h[i - 1]]
           S == {m \in Nat : \E h \in [0 .. m -> T] : Good(m, h)}
<1>1. 0 \in S
  <2>1. [i \in 0 .. 0 |-> base] \in [0 .. 0 -> T] /\ Good(0, [i \in 0 .. 0 |-> base])
    OBVIOUS
  <2> QED
    BY <2>1
<1>2. ASSUME NEW m \in Nat, m \in S PROVE m + 1 \in S
  <2>1. PICK h \in [0 .. m -> T] : Good(m, h)
    BY <1>2
  <2> DEFINE g == [i \in 0 .. m + 1 |-> IF i = m + 1 THEN step[m + 1][h[m]] ELSE h[i]]
  <2>2. \A i \in 0 .. m : g[i] = h[i] /\ i \in 0 .. m + 1 /\ h[i] \in T
    OBVIOUS
  <2>3. g[m + 1] = step[m + 1][h[m]] /\ step[m + 1][h[m]] \in T
    <3>1. h[m] \in T /\ step[m + 1] \in [T -> T]
      OBVIOUS
    <3> QED
      BY <3>1
  <2>4. g \in [0 .. m + 1 -> T]
    <3>1. \A i \in 0 .. m + 1 : i = m + 1 \/ i \in 0 .. m
      OBVIOUS
    <3>2. DOMAIN g = 0 .. m + 1 /\ g = [i \in 0 .. m + 1 |-> g[i]]
      OBVIOUS
    <3> HIDE DEF g
    <3> QED
      BY <2>2, <2>3, <3>1, <3>2
  <2>5. Good(m + 1, g)
    <3>1. g[0] = base
      BY <2>1, <2>2
    <3>2. ASSUME NEW i \in 1 .. m + 1 PROVE g[i] = step[i][g[i - 1]]
      <4>1. CASE i = m + 1
        BY <4>1, <2>2, <2>3
      <4>2. CASE i \in 1 .. m
        <5>1. i \in 0 .. m /\ i - 1 \in 0 .. m /\ h[i] = step[i][h[i - 1]]
          BY <4>2, <2>1
        <5> QED
          BY <5>1, <2>2
      <4> QED
        BY <4>1, <4>2
    <3> QED
      BY <3>1, <3>2
  <2> HIDE DEF g
  <2> QED
    BY <2>4, <2>5
<1>3. S \subseteq Nat
  OBVIOUS
<1>4. n \in S
  <2> HIDE DEF S
  <2> QED
    BY <1>1, <1>2, NatSetInduction
<1>5. PICK h \in [0 .. n -> T] : Good(n, h)
  BY <1>4
<1>6. Steps(T, base, step, n, h)
  BY <1>5 DEF Steps
<1> QED
  BY <1>6

\* FlattenSeq puts one sequence after the other.
Flattens(seqs, h) ==
    /\ DOMAIN h = 1 .. Len(seqs)
    /\ h[1] = seqs[1]
    /\ \A i \in 2 .. Len(seqs) : h[i] = h[i - 1] \o seqs[i]

LEMMA FlattenExists ==
    ASSUME NEW W, NEW seqs \in Seq(Seq(W)), seqs # <<>>
    PROVE  \E h \in [1 .. Len(seqs) -> Seq(W)] : Flattens(seqs, h) /\ FlattenSeq(seqs) = h[Len(seqs)]
<1> DEFINE n == Len(seqs)
           T == Seq(W)
           next(i, s) == IF i \in 2 .. n THEN s \o seqs[i] ELSE IF i = 1 THEN seqs[1] ELSE s
           step == [i \in Nat |-> [s \in T |-> next(i, s)]]
           Eq(f) == f = [i \in 1 .. n |-> IF i = 1 THEN seqs[i] ELSE f[i - 1] \o seqs[i]]
           flatten == CHOOSE f : Eq(f)
<1>1. n \in Nat \ {0} /\ \A i \in 1 .. n : seqs[i] \in T
  OBVIOUS
<1>2. FlattenSeq(seqs) = flatten[n]
  <2>1. n # 0
    BY <1>1
  <2> QED
    BY <2>1 DEF FlattenSeq
<1>3. \A i \in Nat, s \in T : next(i, s) \in T
  OBVIOUS
<1>4. step \in [Nat -> [T -> T]] /\ \A i \in Nat, s \in T : step[i][s] = next(i, s)
  <2> HIDE DEF next, T
  <2> QED
    BY <1>3
<1>5. PICK g \in [0 .. n -> T] : g[0] = <<>> /\ \A i \in 1 .. n : g[i] = step[i][g[i - 1]]
  <2> DEFINE none == <<>>
  <2>1. n \in Nat /\ none \in T
    BY <1>1
  <2> HIDE DEF step, T, n, none
  <2>2. step \in [Nat -> [T -> T]]
    BY <1>4
  <2>3. PICK h : Steps(T, none, step, n, h)
    BY <2>1, <2>2, Iterated
  <2>4. h \in [0 .. n -> T] /\ h[0] = none /\ \A i \in 1 .. n : h[i] = step[i][h[i - 1]]
    BY <2>3 DEF Steps
  <2> QED
    BY <2>4 DEF none
<1> DEFINE f == [i \in 1 .. n |-> g[i]]
<1>6. \A i \in 1 .. n : g[i] = next(i, g[i - 1])
  <2> HIDE DEF step, T, next
  <2>1. \A i \in 1 .. n : i \in Nat /\ i - 1 \in 0 .. n
    BY <1>1
  <2> QED
    BY <1>4, <1>5, <2>1
<1>7. Eq(f)
  <2>1. ASSUME NEW i \in 1 .. n PROVE f[i] = IF i = 1 THEN seqs[i] ELSE f[i - 1] \o seqs[i]
    <3>1. CASE i = 1
      BY <3>1, <1>6
    <3>2. CASE i # 1
      <4>1. i \in 2 .. n /\ i - 1 \in 1 .. n
        BY <3>2, <1>1
      <4>2. f[i] = g[i] /\ f[i - 1] = g[i - 1] /\ g[i] = g[i - 1] \o seqs[i]
        BY <4>1, <1>6
      <4> QED
        BY <4>2, <3>2
    <3> QED
      BY <3>1, <3>2
  <2>2. f = [i \in 1 .. n |-> f[i]]
    OBVIOUS
  <2> HIDE DEF f
  <2> QED
    BY <2>1, <2>2
<1>8. Eq(flatten)
  <2> HIDE DEF f, Eq
  <2> QED
    BY <1>7
<1>9. DOMAIN flatten = 1 .. n /\ flatten[1] = seqs[1] /\ \A i \in 2 .. n : flatten[i] = flatten[i - 1] \o seqs[i]
  <2> HIDE DEF flatten
  <2>1. flatten = [i \in 1 .. n |-> IF i = 1 THEN seqs[i] ELSE flatten[i - 1] \o seqs[i]]
    BY <1>8
  <2>2. DOMAIN flatten = 1 .. n /\ \A i \in 1 .. n : flatten[i] = IF i = 1 THEN seqs[i] ELSE flatten[i - 1] \o seqs[i]
    BY ONLY <2>1
  <2>3. 1 \in 1 .. n /\ \A i \in 2 .. n : i \in 1 .. n /\ i # 1
    BY <1>1
  <2> QED
    BY <2>2, <2>3
<1>10. \A i \in 1 .. n : flatten[i] \in T
  <2> HIDE DEF flatten
  <2> DEFINE S == {i \in Nat : i + 1 \in 1 .. n => flatten[i + 1] \in T}
  <2>1. 0 \in S
    BY <1>1, <1>9
  <2>2. ASSUME NEW i \in Nat, i \in S PROVE i + 1 \in S
    <3> SUFFICES ASSUME i + 2 \in 1 .. n PROVE flatten[i + 2] \in T
      OBVIOUS
    <3>1. i + 1 \in 1 .. n /\ i + 2 \in 2 .. n /\ (i + 2) - 1 = i + 1
      BY <1>1
    <3>2. flatten[i + 2] = flatten[i + 1] \o seqs[i + 2] /\ flatten[i + 1] \in T /\ seqs[i + 2] \in T
      BY <3>1, <1>1, <1>9, <2>2
    <3> QED
      BY <3>2
  <2>3. Nat \subseteq S
    <3> HIDE DEF S
    <3> QED
      BY <2>1, <2>2, NatSetInduction
  <2>4. \A i \in 1 .. n : i - 1 \in Nat /\ (i - 1) + 1 = i
    BY <1>1
  <2> QED
    BY <2>3, <2>4
<1>11. flatten = [i \in 1 .. n |-> flatten[i]]
  <2> HIDE DEF flatten
  <2>1. flatten = [i \in 1 .. n |-> IF i = 1 THEN seqs[i] ELSE flatten[i - 1] \o seqs[i]]
    BY <1>8
  <2> QED
    BY ONLY <2>1
<1>12. flatten \in [1 .. n -> T] /\ Flattens(seqs, flatten)
  <2> HIDE DEF flatten, T
  <2>1. flatten \in [1 .. n -> T]
    BY <1>10, <1>11
  <2>2. Flattens(seqs, flatten)
    BY <1>9 DEF Flattens
  <2> QED
    BY <2>1, <2>2
<1> HIDE DEF flatten
<1> QED
  BY <1>2, <1>12

\* The elements of such a function are the same for sequences that begin alike.
Alike(s, t, n) == \A i \in 1 .. n : s[i] = t[i]

LEMMA FlattenAlike ==
    ASSUME NEW W, NEW s \in Seq(Seq(W)), NEW t \in Seq(Seq(W)), NEW g, NEW h, Flattens(s, g), Flattens(t, h),
           NEW n \in Nat, n <= Len(s), n <= Len(t), Alike(s, t, n)
    PROVE  Alike(g, h, n)
<1> USE DEF Alike
<1> DEFINE S == {i \in Nat : i + 1 \in 1 .. n => g[i + 1] = h[i + 1]}
<1>1. 0 \in S
  <2> SUFFICES ASSUME 1 \in 1 .. n PROVE g[1] = h[1]
    OBVIOUS
  <2> QED
    BY DEF Flattens
<1>2. ASSUME NEW i \in Nat, i \in S PROVE i + 1 \in S
  <2> SUFFICES ASSUME i + 2 \in 1 .. n PROVE g[i + 2] = h[i + 2]
    OBVIOUS
  <2>1. i + 1 \in 1 .. n /\ i + 2 \in 2 .. Len(s) /\ i + 2 \in 2 .. Len(t) /\ (i + 2) - 1 = i + 1
    OBVIOUS
  <2>2. g[i + 2] = g[i + 1] \o s[i + 2] /\ h[i + 2] = h[i + 1] \o t[i + 2]
    BY <2>1 DEF Flattens
  <2>3. g[i + 1] = h[i + 1] /\ s[i + 2] = t[i + 2]
    BY <2>1, <1>2
  <2> QED
    BY <2>2, <2>3
<1>3. Nat \subseteq S
  <2> HIDE DEF S
  <2> QED
    BY <1>1, <1>2, NatSetInduction
<1>4. \A i \in 1 .. n : i - 1 \in Nat /\ (i - 1) + 1 = i
  OBVIOUS
<1> QED
  BY <1>3, <1>4

LEMMA FlattenType ==
    ASSUME NEW W, NEW seqs \in Seq(Seq(W))
    PROVE  FlattenSeq(seqs) \in Seq(W)
<1>1. CASE seqs = <<>>
  BY <1>1 DEF FlattenSeq
<1>2. CASE seqs # <<>>
  <2>1. Len(seqs) \in 1 .. Len(seqs)
    BY <1>2
  <2>2. PICK h \in [1 .. Len(seqs) -> Seq(W)] : FlattenSeq(seqs) = h[Len(seqs)]
    BY <1>2, FlattenExists
  <2> QED
    BY <2>1, <2>2
<1> QED
  BY <1>1, <1>2

LEMMA FlattenAppend ==
    ASSUME NEW W, NEW seqs \in Seq(Seq(W)), NEW x \in Seq(W)
    PROVE  FlattenSeq(Append(seqs, x)) = FlattenSeq(seqs) \o x
<1> DEFINE t == Append(seqs, x)
           n == Len(seqs)
<1> DEFINE V == Seq(W)
<1>1. t \in Seq(Seq(W)) /\ t # <<>> /\ Len(t) = n + 1 /\ t[n + 1] = x /\ n \in Nat /\ \A i \in 1 .. n : t[i] = seqs[i]
  <2>1. seqs \in Seq(V) /\ x \in V
    OBVIOUS
  <2> HIDE DEF V
  <2> QED
    BY <2>1, AppendProperties, LenProperties
<1>2. PICK h \in [1 .. n + 1 -> Seq(W)] : Flattens(t, h) /\ FlattenSeq(t) = h[n + 1]
  <2> HIDE DEF t, n
  <2> QED
    BY <1>1, FlattenExists
<1>3. CASE seqs = <<>>
  <2>1. FlattenSeq(seqs) = <<>> /\ n = 0
    BY <1>3 DEF FlattenSeq
  <2>2. h[1] = x
    BY <1>1, <1>2, <2>1 DEF Flattens
  <2> QED
    BY <1>2, <2>1, <2>2
<1>4. CASE seqs # <<>>
  <2>1. PICK g \in [1 .. n -> Seq(W)] : Flattens(seqs, g) /\ FlattenSeq(seqs) = g[n]
    BY <1>4, FlattenExists
  <2>2. n \in 1 .. n /\ n + 1 \in 2 .. Len(t) /\ (n + 1) - 1 = n
    BY <1>1, <1>4
  <2>3. g[n] = h[n]
    <3> HIDE DEF t
    <3>1. n <= Len(seqs) /\ n <= Len(t) /\ n \in Nat /\ \A i \in 1 .. n : seqs[i] = t[i]
      BY <1>1
    <3>2. t \in Seq(Seq(W)) /\ Flattens(seqs, g) /\ Flattens(t, h)
      BY <1>1, <1>2, <2>1
    <3>3. Alike(seqs, t, n)
      BY <3>1 DEF Alike
    <3>4. Alike(g, h, n)
      BY <3>1, <3>2, <3>3, FlattenAlike
    <3> QED
      BY <2>2, <3>4 DEF Alike
  <2>4. h[n + 1] = h[n] \o t[n + 1]
    <3> HIDE DEF t
    <3> QED
      BY <1>2, <2>2 DEF Flattens
  <2> QED
    BY <1>1, <1>2, <2>1, <2>3, <2>4
<1> QED
  BY <1>3, <1>4

\* One sequence is flattened to itself.
LEMMA FlattenOne ==
    ASSUME NEW W, NEW s \in Seq(W)
    PROVE  FlattenSeq(<<s>>) = s
<1>1. PICK h \in [1 .. 1 -> Seq(W)] : Flattens(<<s>>, h) /\ FlattenSeq(<<s>>) = h[1]
  <2>1. <<s>> \in Seq(Seq(W)) /\ <<s>> # <<>> /\ Len(<<s>>) = 1
    OBVIOUS
  <2> QED
    BY <2>1, FlattenExists
<1> QED
  BY <1>1 DEF Flattens

\* What is added to the last sequence is added to the whole.
LEMMA FlattenExtend ==
    ASSUME NEW W, NEW seqs \in Seq(Seq(W)), seqs # <<>>, NEW w \in W
    PROVE  FlattenSeq([seqs EXCEPT ![Len(seqs)] = Append(@, w)]) = Append(FlattenSeq(seqs), w)
<1> DEFINE V == Seq(W)
           n == Len(seqs)
<1>1. PICK front \in Seq(V), last \in V : seqs = Append(front, last)
  <2>1. seqs \in Seq(V)
    OBVIOUS
  <2> HIDE DEF V
  <2> QED
    BY <2>1, SequenceEmptyOrAppend
<1>2. seqs \in Seq(V) /\ n \in Nat /\ n \in 1 .. n /\ n = Len(front) + 1 /\ Len(front) \in Nat /\ seqs[n] = last
      /\ \A i \in 1 .. Len(front) : seqs[i] = front[i]
  <2> HIDE DEF V
  <2> QED
    BY <1>1, AppendProperties, LenProperties
<1> DEFINE a == Append(last, w)
           u == [seqs EXCEPT ![n] = a]
           v == Append(front, a)
<1>3. a \in V
  BY AppendProperties
<1>4. u = v
  <2> HIDE DEF V, a
  <2>1. u \in Seq(V) /\ Len(u) = n /\ \A j \in 1 .. n : u[j] = IF j = n THEN a ELSE seqs[j]
    BY <1>2, <1>3, ExceptSeq
  <2>2. v \in Seq(V) /\ Len(v) = n /\ v[n] = a /\ \A i \in 1 .. Len(front) : v[i] = front[i]
    BY <1>2, <1>3, AppendProperties
  <2> HIDE DEF u, v
  <2>3. \A j \in 1 .. n : u[j] = v[j]
    <3>1. \A j \in 1 .. n : j = n \/ j \in 1 .. Len(front)
      BY <1>2
    <3>2. \A j \in 1 .. Len(front) : j # n
      BY <1>2
    <3> HIDE DEF n
    <3> QED
      BY <1>2, <2>1, <2>2, <3>1, <3>2
  <2> QED
    BY <2>1, <2>2, <2>3, SeqEqual
<1>5. [seqs EXCEPT ![n] = Append(@, w)] = u
  BY <1>2
<1>6. FlattenSeq(front) \in Seq(W) /\ FlattenSeq(seqs) = FlattenSeq(front) \o last
      /\ FlattenSeq(v) = FlattenSeq(front) \o a
  <2>1. front \in Seq(Seq(W)) /\ last \in Seq(W) /\ a \in Seq(W)
    BY <1>3
  <2> HIDE DEF a
  <2> QED
    BY <1>1, <2>1, FlattenType, FlattenAppend
<1>7. FlattenSeq(front) \o a = Append(FlattenSeq(front) \o last, w)
  <2> DEFINE f == FlattenSeq(front)
  <2>1. f \in Seq(W) /\ last \in Seq(W)
    BY <1>6
  <2> HIDE DEF f
  <2>2. f \o last \in Seq(W) /\ <<w>> \in Seq(W)
    BY <2>1, ConcatProperties
  <2>3. a = last \o <<w>> /\ Append(f \o last, w) = (f \o last) \o <<w>>
    BY <2>1, <2>2, AppendIsConcat
  <2>4. f \o (last \o <<w>>) = (f \o last) \o <<w>>
    BY <2>1, <2>2, ConcatAssociative
  <2> QED
    BY <2>3, <2>4 DEF f
<1> QED
  BY <1>4, <1>5, <1>6, <1>7

-----------------------------------------------------------------------------
(* What splitArgv makes of the words of a command *)

\* What a word adds to the arguments so far.
Extend(acc, word) ==
    LET open == IF word \in Quoting THEN ~acc.open ELSE acc.open
    IN  [open |-> open,
         args |-> IF acc.open
                  THEN [acc.args EXCEPT ![Len(acc.args)] = Append(@, Spelled[word])]
                  ELSE Append(acc.args, <<Spelled[word]>>)]
NoArgs == [open |-> FALSE, args |-> <<>>]
Splitting(words, it, s) == IF s = {} THEN NoArgs ELSE Extend(it[s \ {Max(s)}], words[Max(s)])
Splits(words, it) == it = [s \in SUBSET DOMAIN words |-> Splitting(words, it, s)]

LEMMA SplitArgvFolds ==
    ASSUME NEW words
    PROVE  SplitArgv(words) = (CHOOSE it : Splits(words, it))[DOMAIN words].args
BY DEF SplitArgv, FoldLeft, MapThenFoldSet, Splits, Splitting, Extend, NoArgs

LEMMA MaxOf ==
    ASSUME NEW s, NEW k \in Nat, s \subseteq 1 .. k, k \in s
    PROVE  Max(s) = k
<1>1. \A y \in s : k >= y
  OBVIOUS
<1>2. \A x \in s : (\A y \in s : x >= y) => x = k
  OBVIOUS
<1> QED
  BY <1>1, <1>2 DEF Max

LEMMA MaxIn ==
    ASSUME NEW k \in Nat
    PROVE  \A s \in SUBSET (1 .. k) : s # {} => Max(s) \in s
<1> DEFINE S == {n \in Nat : \A s \in SUBSET (1 .. n) : s # {} => Max(s) \in s}
<1>1. 0 \in S
  <2>1. 1 .. 0 = {}
    OBVIOUS
  <2>2. \A s \in SUBSET (1 .. 0) : s = {}
    BY <2>1
  <2> QED
    BY <2>2
<1>2. ASSUME NEW n \in Nat, n \in S PROVE n + 1 \in S
  <2> SUFFICES ASSUME NEW s \in SUBSET (1 .. n + 1), s # {} PROVE Max(s) \in s
    OBVIOUS
  <2>1. CASE n + 1 \in s
    <3>1. n + 1 \in Nat /\ s \subseteq 1 .. n + 1
      OBVIOUS
    <3>2. Max(s) = n + 1
      BY <2>1, <3>1, MaxOf
    <3> QED
      BY <2>1, <3>2
  <2>2. CASE n + 1 \notin s
    <3>1. s \in SUBSET (1 .. n)
      BY <2>2
    <3> QED
      BY <3>1, <1>2
  <2> QED
    BY <2>1, <2>2
<1>3. Nat \subseteq S
  <2> HIDE DEF S
  <2> QED
    BY <1>1, <1>2, NatSetInduction
<1> QED
  BY <1>3

\* The recursion of the fold has a solution over all sets of the first k positions.
SplitsUpTo(words, k, it) == it = [s \in SUBSET (1 .. k) |-> Splitting(words, it, s)]

LEMMA SplittingExists ==
    ASSUME NEW words, NEW k \in Nat
    PROVE  \E it : SplitsUpTo(words, k, it)
<1> DEFINE S == {n \in Nat : \E it : SplitsUpTo(words, n, it)}
<1>1. 0 \in S
  <2> DEFINE it == [s \in SUBSET (1 .. 0) |-> NoArgs]
  <2>1. \A s \in SUBSET (1 .. 0) : s = {}
    OBVIOUS
  <2>2. it = [s \in SUBSET (1 .. 0) |-> Splitting(words, it, s)]
    BY <2>1 DEF Splitting
  <2> HIDE DEF it
  <2> QED
    BY <2>2 DEF SplitsUpTo
<1>2. ASSUME NEW n \in Nat, n \in S PROVE n + 1 \in S
  <2>1. PICK f : SplitsUpTo(words, n, f)
    BY <1>2
  <2> DEFINE Small == SUBSET (1 .. n)
             Large == SUBSET (1 .. n + 1)
             it == [s \in Large |-> IF n + 1 \in s THEN Extend(f[s \ {n + 1}], words[n + 1]) ELSE f[s]]
  <2>2. /\ \A s \in Large : n + 1 \notin s => s \in Small
        /\ \A s \in Large : n + 1 \in s => s \ {n + 1} \in Small /\ Max(s) = n + 1
        /\ \A s \in Small : s \in Large /\ n + 1 \notin s
    <3>1. ASSUME NEW s \in Large, n + 1 \notin s PROVE s \in Small
      BY <3>1
    <3>2. ASSUME NEW s \in Large, n + 1 \in s PROVE s \ {n + 1} \in Small /\ Max(s) = n + 1
      <4>1. n + 1 \in Nat /\ s \subseteq 1 .. n + 1
        OBVIOUS
      <4>2. s \ {n + 1} \in Small
        OBVIOUS
      <4> QED
        BY <3>2, <4>1, <4>2, MaxOf
    <3>3. ASSUME NEW s \in Small PROVE s \in Large /\ n + 1 \notin s
      OBVIOUS
    <3> QED
      BY <3>1, <3>2, <3>3
  <2>3. \A s \in Small : f[s] = Splitting(words, f, s)
    BY <2>1 DEF SplitsUpTo
  <2>4. \A s \in Small : s # {} => s \ {Max(s)} \in Small
    OBVIOUS
  <2> HIDE DEF Small, Large
  <2>5. \A s \in Large : it[s] = IF n + 1 \in s THEN Extend(f[s \ {n + 1}], words[n + 1]) ELSE f[s]
    OBVIOUS
  <2>6. \A s \in Small : it[s] = f[s]
    BY <2>2, <2>5
  <2>7. ASSUME NEW s \in Large PROVE it[s] = Splitting(words, it, s)
    <3> HIDE DEF it
    <3>1. CASE n + 1 \in s
      <4>1. s # {} /\ Max(s) = n + 1 /\ s \ {n + 1} \in Small
        BY <3>1, <2>2
      <4>2. it[s] = Extend(f[s \ {n + 1}], words[n + 1]) /\ it[s \ {n + 1}] = f[s \ {n + 1}]
        BY <3>1, <4>1, <2>5, <2>6
      <4> QED
        BY <4>1, <4>2 DEF Splitting
    <3>2. CASE n + 1 \notin s
      <4>1. s \in Small
        BY <3>2, <2>2
      <4>2. it[s] = f[s] /\ f[s] = Splitting(words, f, s)
        BY <4>1, <2>3, <2>6
      <4>3. s # {} => it[s \ {Max(s)}] = f[s \ {Max(s)}]
        BY <4>1, <2>4, <2>6
      <4>4. Splitting(words, f, s) = Splitting(words, it, s)
        BY <4>3 DEF Splitting
      <4> QED
        BY <4>2, <4>4
    <3> QED
      BY <3>1, <3>2
  <2>8. it = [s \in Large |-> it[s]]
    OBVIOUS
  <2> HIDE DEF it
  <2>9. it = [s \in Large |-> Splitting(words, it, s)]
    BY <2>7, <2>8
  <2>10. SplitsUpTo(words, n + 1, it)
    BY <2>9 DEF SplitsUpTo, Large
  <2> QED
    BY <2>10
<1>3. Nat \subseteq S
  <2> HIDE DEF S
  <2> QED
    BY <1>1, <1>2, NatSetInduction
<1> QED
  BY <1>3

\* The arguments grow word by word.
LEMMA SplitArgvGrows ==
    ASSUME NEW words \in Seq(Words)
    PROVE  \E acc : /\ acc[0] = NoArgs
                    /\ \A k \in 1 .. Len(words) : acc[k] = Extend(acc[k - 1], words[k])
                    /\ SplitArgv(words) = acc[Len(words)].args
<1> DEFINE n == Len(words)
           it == CHOOSE f : Splits(words, f)
           acc == [k \in 0 .. n |-> it[1 .. k]]
<1>1. n \in Nat /\ DOMAIN words = 1 .. n
  OBVIOUS
<1>2. Splits(words, it)
  <2>1. PICK f : SplitsUpTo(words, n, f)
    BY <1>1, SplittingExists
  <2>2. Splits(words, f)
    BY <1>1, <2>1 DEF Splits, SplitsUpTo
  <2> QED
    BY <2>2
<1>3. SplitArgv(words) = it[1 .. n].args
  BY <1>1, SplitArgvFolds
<1> HIDE DEF it
<1>4. \A s \in SUBSET (1 .. n) : it[s] = Splitting(words, it, s)
  BY <1>1, <1>2 DEF Splits
<1>5. acc[0] = NoArgs
  <2>1. acc[0] = it[1 .. 0] /\ 1 .. 0 = {} /\ {} \in SUBSET (1 .. n)
    BY <1>1
  <2>2. it[{}] = NoArgs
    BY <1>4 DEF Splitting
  <2> QED
    BY <2>1, <2>2
<1>6. ASSUME NEW k \in 1 .. n PROVE acc[k] = Extend(acc[k - 1], words[k])
  <2> DEFINE s == 1 .. k
  <2>1. k \in Nat /\ k \in s /\ s \subseteq 1 .. k /\ s \in SUBSET (1 .. n) /\ s # {} /\ s \ {k} = 1 .. k - 1
        /\ k - 1 \in 0 .. n /\ k \in 0 .. n
    <3>1. k \in Nat /\ k \in s /\ s \subseteq 1 .. k /\ k - 1 \in 0 .. n /\ k \in 0 .. n
      BY <1>1
    <3>2. \A i \in s : i \in 1 .. n
      BY <1>1
    <3>3. \A i : i \in s \ {k} <=> i \in 1 .. k - 1
      BY <1>1
    <3> QED
      BY <3>1, <3>2, <3>3
  <2>2. acc[k] = it[s] /\ acc[k - 1] = it[1 .. k - 1]
    BY <2>1
  <2> HIDE DEF s, acc
  <2>3. Max(s) = k
    BY <2>1, MaxOf
  <2>4. it[s] = Extend(it[s \ {k}], words[k])
    BY <1>4, <2>1, <2>3 DEF Splitting
  <2> QED
    BY <2>1, <2>2, <2>4
<1>7. acc[n] = it[1 .. n]
  BY <1>1
<1> HIDE DEF acc
<1> QED
  BY <1>3, <1>5, <1>6, <1>7

LEMMA SpellSeq ==
    ASSUME NEW words \in Seq(Words)
    PROVE  /\ Spell(words) \in Seq(Texts) /\ Len(Spell(words)) = Len(words)
           /\ \A i \in 1 .. Len(words) : Spell(words)[i] = Spelled[words[i]] /\ Spelled[words[i]] \in Texts
<1> DEFINE n == Len(words)
<1>1. n \in Nat /\ DOMAIN words = 1 .. n /\ \A i \in 1 .. n : words[i] \in Words
  OBVIOUS
<1>2. \A i \in 1 .. n : Spelled[words[i]] \in Texts
  BY <1>1 DEF Texts
<1>3. Spell(words) \in [1 .. n -> Texts] /\ \A i \in 1 .. n : Spell(words)[i] = Spelled[words[i]]
  BY <1>1, <1>2 DEF Spell
<1>4. Spell(words) \in Seq(Texts)
  BY <1>1, <1>3, SeqDef
<1>5. Len(Spell(words)) = n
  BY <1>1, <1>3, <1>4
<1> HIDE DEF n
<1> QED
  BY <1>2, <1>3, <1>4, <1>5 DEF n

\* The arguments are the words without their quotes, each in its place, and the words before the first
\* quotation over several words are arguments one by one.
LEMMA SplitArgvFacts ==
    ASSUME NEW words \in Seq(Words)
    PROVE  /\ SplitArgv(words) \in Seq(Seq(Texts))
           /\ FlattenSeq(SplitArgv(words)) = Spell(words)
           /\ \A q \in 1 .. Len(words) : (\A i \in 1 .. q : words[i] \notin Quoting) =>
                 Len(SplitArgv(words)) >= q /\ SplitArgv(words)[q] = <<Spelled[words[q]]>>
<1> DEFINE n == Len(words)
           V == Seq(Texts)
           text == Spell(words)
<1>1. n \in Nat /\ \A i \in 1 .. n : words[i] \in Words
  OBVIOUS
<1>0. /\ text \in Seq(Texts) /\ Len(text) = n
      /\ \A i \in 1 .. n : text[i] = Spelled[words[i]] /\ Spelled[words[i]] \in Texts
  BY SpellSeq
<1>2. PICK acc : /\ acc[0] = NoArgs
                 /\ \A k \in 1 .. n : acc[k] = Extend(acc[k - 1], words[k])
                 /\ SplitArgv(words) = acc[n].args
  BY SplitArgvGrows
<1> HIDE DEF text
<1> DEFINE Typed(k) == acc[k].args \in Seq(V) /\ (acc[k].open => acc[k].args # <<>>)
           Flat(k) == FlattenSeq(acc[k].args) = SubSeq(text, 1, k)
           Plainly(q) == \A i \in 1 .. q : words[i] \notin Quoting
           Lead(k) == \A q \in 1 .. n : Plainly(q) =>
                         /\ k <= q => Len(acc[k].args) = k /\ ~acc[k].open
                         /\ k >= q => Len(acc[k].args) >= q /\ acc[k].args[q] = <<Spelled[words[q]]>>
                                      /\ (acc[k].open => Len(acc[k].args) > q)
           S == {k \in Nat : k <= n => Typed(k) /\ Flat(k) /\ Lead(k)}
<1>3. 0 \in S
  <2>1. acc[0].args = <<>> /\ ~acc[0].open
    BY <1>2 DEF NoArgs
  <2>2. FlattenSeq(<<>>) = <<>>
    BY DEF FlattenSeq
  <2>3. SubSeq(text, 1, 0) = <<>>
    BY <1>0, SubSeqEmpty
  <2>4. <<>> \in Seq(V)
    BY EmptySeq
  <2>5. Typed(0) /\ Flat(0)
    BY <2>1, <2>2, <2>3, <2>4
  <2>6. Lead(0)
    BY <2>1
  <2> HIDE DEF Typed, Flat, Lead
  <2> QED
    BY <2>5, <2>6
<1>4. ASSUME NEW k \in Nat, k \in S PROVE k + 1 \in S
  <2> HIDE DEF Typed, Flat, Lead, Plainly
  <2> SUFFICES ASSUME k + 1 <= n PROVE Typed(k + 1) /\ Flat(k + 1) /\ Lead(k + 1)
    OBVIOUS
  <2> USE DEF Typed, Flat, Lead
  <2> DEFINE old == acc[k]
             word == words[k + 1]
             said == Spelled[word]
             args == old.args
  <2>1. k <= n /\ k + 1 \in 1 .. n /\ (k + 1) - 1 = k /\ word \in Words /\ said \in Texts /\ text[k + 1] = said
    BY <1>0, <1>1
  <2>2. args \in Seq(V) /\ (old.open => args # <<>>) /\ FlattenSeq(args) = SubSeq(text, 1, k) /\ Lead(k)
    BY <1>4, <2>1
  <2>3. acc[k + 1] = Extend(old, word)
    BY <1>2, <2>1
  <2>4. SubSeq(text, 1, k + 1) = Append(SubSeq(text, 1, k), said)
    BY <1>0, <1>1, <2>1
  <2>5. <<said>> \in V
    BY <2>1
  <2> DEFINE new == acc[k + 1].args
  <2>6. CASE old.open
    <3> DEFINE m == Len(args)
               ext == Append(args[m], said)
    <3>1. new = [args EXCEPT ![m] = ext]
      BY <2>3, <2>6 DEF Extend
    <3>2. args # <<>> /\ m \in 1 .. m /\ args[m] \in V /\ m \in Nat
      <4>1. args # <<>>
        BY <2>2, <2>6
      <4> HIDE DEF args, V
      <4> QED
        BY <2>2, <4>1, EmptySeq, LenProperties, ElementOfSeq
    <3>3. ext \in V
      <4> HIDE DEF said
      <4> QED
        BY <2>1, <3>2, AppendProperties
    <3>4. new \in Seq(V) /\ Len(new) = m /\ \A j \in 1 .. m : new[j] = IF j = m THEN ext ELSE args[j]
      <4> HIDE DEF V, ext, new, args
      <4> QED
        BY <2>2, <3>1, <3>2, <3>3, ExceptSeq
    <3>5. new # <<>>
      BY <3>2, <3>4
    <3>6. FlattenSeq(new) = Append(FlattenSeq(args), said)
      <4> HIDE DEF new, args, said
      <4>1. args \in Seq(Seq(Texts)) /\ args # <<>>
        BY <2>2, <3>2
      <4>2. FlattenSeq([args EXCEPT ![Len(args)] = Append(@, said)]) = Append(FlattenSeq(args), said)
        BY <2>1, <4>1, FlattenExtend
      <4> QED
        BY <3>1, <3>2, <4>2
    <3>7. Lead(k + 1)
      <4> SUFFICES ASSUME NEW q \in 1 .. n, Plainly(q)
                   PROVE  /\ k + 1 <= q => Len(new) = k + 1 /\ ~acc[k + 1].open
                          /\ k + 1 >= q => Len(new) >= q /\ new[q] = <<Spelled[words[q]]>>
                                           /\ (acc[k + 1].open => Len(new) > q)
        OBVIOUS
      <4>1. k > q \/ k = q
        BY <2>2, <2>6, <1>1
      <4>2. Len(args) > q /\ args[q] = <<Spelled[words[q]]>>
        BY <2>2, <2>6, <4>1, <1>1
      <4>3. q \in 1 .. m /\ q # m /\ ~(k + 1 <= q)
        BY <3>2, <4>1, <4>2, <1>1
      <4> HIDE DEF new, args, Lead, Plainly
      <4> QED
        BY <3>4, <4>2, <4>3
    <3> HIDE DEF new, args, Lead
    <3> QED
      BY <2>2, <2>4, <3>4, <3>5, <3>6, <3>7 DEF new
  <2>7. CASE ~old.open
    <3>1. new = Append(args, <<said>>)
      BY <2>3, <2>7 DEF Extend
    <3>2. /\ new \in Seq(V) /\ new # <<>> /\ Len(new) = Len(args) + 1 /\ Len(args) \in Nat
          /\ \A j \in 1 .. Len(args) : new[j] = args[j]
          /\ new[Len(args) + 1] = <<said>>
      <4> HIDE DEF V, new, args, said
      <4> QED
        BY <2>2, <2>5, <3>1, AppendProperties, LenProperties
    <3>3. FlattenSeq(new) = Append(FlattenSeq(args), said)
      <4> HIDE DEF new, args, said
      <4>1. FlattenSeq(new) = FlattenSeq(args) \o <<said>>
        BY <2>2, <2>5, <3>1, FlattenAppend
      <4>2. FlattenSeq(args) \in Seq(Texts)
        BY <2>2, FlattenType
      <4> QED
        BY <2>1, <4>1, <4>2, AppendIsConcat
    <3>4. Lead(k + 1)
      <4> SUFFICES ASSUME NEW q \in 1 .. n, Plainly(q)
                   PROVE  /\ k + 1 <= q => Len(new) = k + 1 /\ ~acc[k + 1].open
                          /\ k + 1 >= q => Len(new) >= q /\ new[q] = <<Spelled[words[q]]>>
                                           /\ (acc[k + 1].open => Len(new) > q)
        OBVIOUS
      <4>1. CASE k + 1 <= q
        <5>1. word \notin Quoting /\ k <= q
          BY <2>1, <4>1 DEF Plainly
        <5>2. Len(args) = k /\ ~acc[k + 1].open
          <6>1. Len(args) = k
            BY <2>2, <5>1
          <6>2. Extend(old, word).open = FALSE
            BY <2>7, <5>1 DEF Extend
          <6> QED
            BY <2>3, <6>1, <6>2
        <5>3. k + 1 = q => said = Spelled[words[q]]
          OBVIOUS
        <5> HIDE DEF new, args, said, word, Lead, Plainly
        <5> QED
          BY <3>2, <4>1, <5>2, <5>3, <1>1
      <4>2. CASE k >= q
        <5>1. Len(args) >= q /\ args[q] = <<Spelled[words[q]]>>
          BY <2>2, <4>2
        <5>2. q \in 1 .. Len(args) /\ ~(k + 1 <= q)
          BY <3>2, <4>2, <5>1, <1>1
        <5> HIDE DEF new, args, said, Lead, Plainly
        <5> QED
          BY <3>2, <5>1, <5>2
      <4> QED
        BY <4>1, <4>2, <1>1
    <3> HIDE DEF new, args, said, Lead
    <3> QED
      BY <2>2, <2>4, <2>7, <3>2, <3>3, <3>4 DEF new
  <2> QED
    BY <2>6, <2>7
<1>5. n \in S
  <2> HIDE DEF S
  <2> QED
    BY <1>1, <1>3, <1>4, NatSetInduction
<1>6. SubSeq(text, 1, n) = text
  BY <1>0, SubSeqFull
<1>7. ASSUME NEW q \in 1 .. n, \A i \in 1 .. q : words[i] \notin Quoting
      PROVE  Len(acc[n].args) >= q /\ acc[n].args[q] = <<Spelled[words[q]]>>
  BY <1>1, <1>5, <1>7
<1>8. acc[n].args \in Seq(V) /\ FlattenSeq(acc[n].args) = text
  BY <1>1, <1>5, <1>6
<1> QED
  BY <1>1, <1>2, <1>7, <1>8 DEF text

-----------------------------------------------------------------------------
(* One command, judged and run *)

\* The judgement that lets the words of a command run.
Passed ==
    /\ ~Denied(judged)
    /\ \/ Begins(judged, Reads) \/ Alone(judged)
       \/ Begins(judged, Mutations) /\ given = {"confirm", "reason"}
       \/ Begins(judged, Destructive) /\ given = {"confirm", "reason"} /\ approval = "approved"

\* Up to the first quotation over several words each word is an argument.
Separate(args) ==
    \A i \in 1 .. Len(judged) : (\A k \in 1 .. i : judged[k] \notin Quoting) => args[i] = <<Spelled[judged[i]]>>

\* What was judged are the words of all lines, and what runs are those words without their quotes.
GuardIInv ==
    /\ GuardTypeOK
    /\ phase # "execute" => judged = FlattenSeq(lines)
    /\ phase = "run" => Passed
    /\ phase \in {"execute", "run"} => argv = <<>>
    /\ Ran => /\ phase # "execute" /\ Passed
              /\ FlattenSeq(argv) = Spell(judged) /\ Separate(argv)

LEMMA GuardInitInv == GuardInit => GuardIInv
<1> SUFFICES ASSUME GuardInit PROVE GuardIInv
  OBVIOUS
<1>1. PICK n \in 0 .. MaxLines : lines \in [1 .. n -> BoundedSeq(Words, MaxWords)]
  BY DEF GuardInit
<1>2. n \in Nat
  BY <1>1, GuardAssumption
<1>3. BoundedSeq(Words, MaxWords) \subseteq Seq(Words)
  <2>1. ASSUME NEW s \in BoundedSeq(Words, MaxWords) PROVE s \in Seq(Words)
    <3>1. PICK m \in 0 .. MaxWords : s \in [1 .. m -> Words]
      BY DEF BoundedSeq, SeqOf
    <3>2. m \in Nat
      BY <3>1, GuardAssumption
    <3> QED
      BY <3>1, <3>2, SeqDef
  <2> QED
    BY <2>1
<1>4. lines \in Seq(Seq(Words))
  <2> DEFINE V == Seq(Words)
  <2>1. lines \in [1 .. n -> V]
    BY <1>1, <1>3
  <2> HIDE DEF V
  <2>2. lines \in Seq(V)
    BY <1>2, <2>1, SeqDef
  <2> QED
    BY <2>2 DEF V
<1>5. <<>> \in Seq(Words) /\ <<>> \in Seq(Seq(Texts))
  BY EmptySeq
<1>6. /\ given \in SUBSET {"confirm", "reason"} /\ approval \in Approvals
      /\ phase = "execute" /\ judged = <<>> /\ argv = <<>>
  BY DEF GuardInit
<1>7. GuardTypeOK
  BY <1>4, <1>5, <1>6 DEF GuardTypeOK, Phases
<1> QED
  BY <1>6, <1>7 DEF GuardIInv, Ran

LEMMA ExecuteCommandKeeps ==
    ASSUME GuardIInv, ExecuteCommand
    PROVE  GuardIInv'
<1> DEFINE words == FlattenSeq(lines)
           level == ValidateCommand(words)
<1>1. words \in Seq(Words)
  BY FlattenType DEF GuardIInv, GuardTypeOK
<1> HIDE DEF words
<1>2. /\ phase = "execute" /\ judged' = words
      /\ phase' = IF /\ level # "denied" /\ Required(level) \subseteq given
                     /\ level = "destructive" => approval = "approved"
                  THEN "run" ELSE "refused"
      /\ lines' = lines /\ given' = given /\ approval' = approval /\ argv' = argv
  BY DEF ExecuteCommand, NormalizeCommand, words
<1>3. argv = <<>> /\ phase' \in {"run", "refused"} /\ ~Ran'
  BY <1>2 DEF GuardIInv, Ran
<1>4. ASSUME phase' = "run" PROVE Passed'
  <2>1. /\ level # "denied" /\ Required(level) \subseteq given
        /\ level = "destructive" => approval = "approved"
    BY <1>2, <1>4
  <2>2. ~Denied(words)
    BY <2>1 DEF ValidateCommand
  <2>3. given \subseteq {"confirm", "reason"}
    BY DEF GuardIInv, GuardTypeOK
  <2>4. \/ level = "read" /\ (Begins(words, Reads) \/ Alone(words))
        \/ level = "mutating" /\ Begins(words, Mutations)
        \/ level = "destructive" /\ Begins(words, Destructive)
    BY <2>1 DEF ValidateCommand
  <2>5. level \in {"mutating", "destructive"} => given = {"confirm", "reason"}
    BY <2>1, <2>3 DEF Required
  <2> HIDE DEF level
  <2>6. \/ Begins(words, Reads) \/ Alone(words)
        \/ Begins(words, Mutations) /\ given = {"confirm", "reason"}
        \/ Begins(words, Destructive) /\ given = {"confirm", "reason"} /\ approval = "approved"
    BY <2>1, <2>4, <2>5
  <2> QED
    BY <1>2, <2>2, <2>6 DEF Passed
<1>5. GuardTypeOK'
  BY <1>1, <1>2, <1>3 DEF GuardIInv, GuardTypeOK, Phases
<1>6. judged' = FlattenSeq(lines')
  BY <1>2 DEF words
<1> QED
  BY <1>2, <1>3, <1>4, <1>5, <1>6 DEF GuardIInv

LEMMA RunCommandLineKeeps ==
    ASSUME GuardIInv, NEW ok \in BOOLEAN, RunCommandLine(ok)
    PROVE  GuardIInv'
<1>1. judged \in Seq(Words) /\ judged = FlattenSeq(lines) /\ Passed
  BY DEF GuardIInv, GuardTypeOK, RunCommandLine
<1>2. NormalizeCommand(<<judged>>) = judged
  BY <1>1, FlattenOne DEF NormalizeCommand
<1>3. /\ phase' \in {"done", "failed"}
      /\ argv' = argv \/ argv' = SplitArgv(judged)
      /\ lines' = lines /\ given' = given /\ approval' = approval /\ judged' = judged
      /\ argv = <<>>
  BY <1>2 DEF RunCommandLine, GuardIInv
<1>4. Passed'
  BY <1>1, <1>3 DEF Passed
<1>6. /\ SplitArgv(judged) \in Seq(Seq(Texts))
      /\ FlattenSeq(SplitArgv(judged)) = Spell(judged)
      /\ Separate(SplitArgv(judged))
  BY <1>1, SplitArgvFacts DEF Separate
<1>7. GuardTypeOK'
  BY <1>3, <1>6 DEF GuardIInv, GuardTypeOK, Phases
<1>8. Ran' => FlattenSeq(argv') = Spell(judged') /\ Separate(argv)'
  BY <1>3, <1>6 DEF Ran, Separate
<1> QED
  BY <1>1, <1>3, <1>4, <1>7, <1>8 DEF GuardIInv

LEMMA GuardStep ==
    ASSUME GuardIInv, [GuardNext]_guardVars
    PROVE  GuardIInv'
<1>1. CASE UNCHANGED guardVars
  BY <1>1 DEF guardVars, GuardIInv, GuardTypeOK, Passed, Ran, Separate
<1> QED
  BY <1>1, ExecuteCommandKeeps, RunCommandLineKeeps DEF GuardNext

\* The invariant says what GuardInv does.
LEMMA GuardSound == GuardIInv => GuardInv
<1> SUFFICES ASSUME GuardIInv PROVE GuardInv
  OBVIOUS
<1>1. ASSUME Ran
      PROVE  /\ judged = FlattenSeq(lines) /\ Passed /\ FlattenSeq(argv) = Spell(judged) /\ Separate(argv)
             /\ ToSet(judged) \cap Chaining = {}
             /\ \A rule \in Forbidden : ~(rule \subseteq ToSet(judged))
  BY <1>1 DEF GuardIInv, Passed, Denied
<1>2. DeniedNeverRuns
  BY <1>1 DEF DeniedNeverRuns
<1>3. judged \in Seq(Words) /\ DOMAIN judged = 1 .. Len(judged) /\ Len(judged) \in Nat
  BY DEF GuardIInv, GuardTypeOK
<1>4. OneCommand
  BY <1>1, <1>3 DEF OneCommand, Separate
<1>5. ASSUME Ran, NEW rules \in {Reads, Mutations, Destructive}, Begins(judged, rules)
      PROVE  /\ argv[1] = <<judged[1]>>
             /\ judged[2] \notin Quoting /\ Spelled[judged[2]] = judged[2] => argv[2] = <<judged[2]>>
  <2> DEFINE rule == <<judged[1], judged[2]>>
  <2>1. Len(judged) >= 2 /\ rule \in Reads \cup Mutations \cup Destructive
    BY <1>5 DEF Begins
  <2>2. rule[1] \notin Quoting /\ Spelled[rule[1]] = rule[1]
    BY <2>1, GuardAssumption
  <2>3. judged[1] \notin Quoting /\ Spelled[judged[1]] = judged[1]
    BY <2>2
  <2>4. Separate(argv)
    BY <1>1, <1>5
  <2>5. argv[1] = <<Spelled[judged[1]]>>
    BY <1>3, <2>1, <2>3, <2>4 DEF Separate
  <2>6. judged[2] \notin Quoting => argv[2] = <<Spelled[judged[2]]>>
    <3>1. 1 .. 2 = {1, 2} /\ 2 \in 1 .. Len(judged)
      BY <1>3, <2>1
    <3> QED
      BY <2>3, <2>4, <3>1 DEF Separate
  <2> QED
    BY <2>3, <2>5, <2>6
<1>6. RunByRule
  <2> SUFFICES ASSUME Ran PROVE RunByRule
    BY DEF RunByRule
  <2> QED
    BY <1>1, <1>5 DEF RunByRule, Passed
<1> QED
  BY <1>2, <1>4, <1>6 DEF GuardIInv, GuardInv

-----------------------------------------------------------------------------
(* The MCP server's credentials *)

\* A call that waits for its validation has the credentials it was sent with, which are those of
\* this moment while no login or logout has been answered.
ValidationInv ==
    \A c \in Calls : call[c].path = "validate" =>
        /\ call[c].first # None
        /\ envAgentToken => call[c].first = Agent
        /\ c \in settled => call[c].first = AuthToken

\* The logins that a logout has ended are neither the session nor on their way.
LoginsInv ==
    /\ ended \subseteq 1 .. logins /\ sessionJwt \notin ended /\ sessionJwt <= logins
    /\ \A c \in Calls : call[c].login \notin ended /\ call[c].login <= logins

McpIInv == McpTypeOK /\ ValidationInv /\ LoginsInv /\ HumanDecides /\ OneIdentity

CallRecord == [tool : Tools \cup {"none"}, path : Paths \cup {"none"}, login : None .. MaxLogins,
               first : Tokens, token : Tokens]

SentRecord == [path : Paths, token : Tokens, first : Tokens, alone : BOOLEAN]

LEMMA McpNumbers ==
    /\ MaxLogins \in Nat /\ None = 0 /\ None \in Tokens /\ Agent \in Tokens /\ Agent # None
    /\ \A n \in None .. MaxLogins : n \in Tokens /\ n # Agent
    /\ None \in None .. MaxLogins
BY McpAssumption DEF Tokens, None, Agent

LEMMA IdleCall == Idle \in CallRecord /\ Idle.path = "none" /\ Idle.login = None /\ Idle.first = None
BY McpNumbers DEF Idle, CallRecord

LEMMA AskedCall ==
    ASSUME NEW tool \in Tools, NEW path \in Paths
    PROVE  /\ Asks(tool, path) \in CallRecord /\ Asks(tool, path).path = path /\ Asks(tool, path).tool = tool
           /\ Asks(tool, path).login = None /\ Asks(tool, path).first = None
BY IdleCall DEF Asks, CallRecord, Idle

LEMMA AuthTokenType ==
    ASSUME McpTypeOK
    PROVE  /\ AuthToken \in Tokens /\ (envAgentToken => AuthToken = Agent)
           /\ (AuthToken = None <=> ~envAgentToken /\ sessionJwt = None)
BY McpNumbers DEF McpTypeOK, AuthToken

LEMMA McpInitInv == McpInit => McpIInv
<1> SUFFICES ASSUME McpInit PROVE McpIInv
  OBVIOUS
<1>1. /\ envAgentToken \in BOOLEAN /\ sessionJwt = None /\ logins = 0 /\ call = [c \in Calls |-> Idle]
      /\ sent = [path |-> "read", token |-> None, first |-> None, alone |-> FALSE]
      /\ ended = {} /\ settled = {}
  BY McpAssumption DEF McpInit
<1>2. call \in [Calls -> CallRecord]
  BY <1>1, IdleCall
<1>3. McpTypeOK
  BY <1>1, <1>2, McpNumbers DEF McpTypeOK, CallRecord, Paths
<1>4. \A c \in Calls : call[c].path = "none" /\ call[c].login = None
  BY <1>1, IdleCall
<1>5. ValidationInv /\ LoginsInv
  BY <1>1, <1>4, McpNumbers DEF ValidationInv, LoginsInv
<1>6. HumanDecides /\ OneIdentity
  BY <1>1 DEF HumanDecides, OneIdentity
<1> QED
  BY <1>3, <1>5, <1>6 DEF McpIInv

\* What a step leaves in the call that makes it.
CallBecomes(c, new) ==
    /\ call' \in [Calls -> CallRecord] /\ call'[c] = new
    /\ \A d \in Calls \ {c} : call'[d] = call[d]

LEMMA CallExcept ==
    ASSUME call \in [Calls -> CallRecord], NEW c \in Calls, NEW new \in CallRecord, call' = [call EXCEPT ![c] = new]
    PROVE  CallBecomes(c, new)
BY DEF CallBecomes

\* A call is answered, or its request is sent with a token.
LEMMA SendsFacts ==
    ASSUME McpTypeOK, NEW c \in Calls, NEW next \in CallRecord, next.path \in Paths, NEW token \in Tokens,
           NEW auth \in BOOLEAN, Sends(c, next, token, auth)
    PROVE  \/ CallBecomes(c, Idle) /\ sent' = sent
           \/ /\ (auth => token # None)
              /\ \E new \in CallRecord : /\ CallBecomes(c, new)
                                         /\ new.path = next.path /\ new.login = next.login /\ new.first = next.first
              /\ sent' = IF next.path \in {"validate", "execute", "decide", "deploy"}
                         THEN [path |-> next.path, token |-> token, first |-> next.first, alone |-> c \in settled]
                         ELSE sent
<1> DEFINE new == [next EXCEPT !.token = token]
<1>1. call \in [Calls -> CallRecord]
  BY DEF McpTypeOK, CallRecord
<1>2. new \in CallRecord /\ new.path = next.path /\ new.login = next.login /\ new.first = next.first
  BY DEF CallRecord
<1> HIDE DEF new
<1>3. CASE auth /\ token = None
  <2>1. call' = [call EXCEPT ![c] = Idle] /\ sent' = sent
    BY <1>3 DEF Sends
  <2> QED
    BY <1>1, <2>1, CallExcept, IdleCall
<1>4. CASE ~(auth /\ token = None)
  <2>1. /\ call' = [call EXCEPT ![c] = new]
        /\ sent' = IF next.path \in {"validate", "execute", "decide", "deploy"}
                   THEN [path |-> next.path, token |-> token, first |-> next.first, alone |-> c \in settled]
                   ELSE sent
    BY <1>4 DEF Sends, new
  <2>2. CallBecomes(c, new)
    BY <1>1, <1>2, <2>1, CallExcept
  <2> QED
    BY <1>2, <1>4, <2>1, <2>2
<1> QED
  BY <1>3, <1>4

\* A call that is made, or goes on, without touching the session.
LEMMA CallKeeps ==
    ASSUME McpIInv, NEW c \in Calls, NEW new \in CallRecord, CallBecomes(c, new),
           new.login \notin ended, new.login <= logins',
           new.path = "validate" => /\ new.first # None /\ (envAgentToken => new.first = Agent)
                                    /\ new.first = AuthToken,
           settled' \in {settled, settled \cup {c}}, logins' \in logins .. MaxLogins,
           UNCHANGED <<envAgentToken, sessionJwt, ended>>,
           sent' \in SentRecord, HumanDecides', OneIdentity'
    PROVE  McpIInv'
<1>1. McpTypeOK'
  BY DEF McpIInv, McpTypeOK, CallBecomes, CallRecord, SentRecord
<1>2. AuthToken' = AuthToken
  BY DEF AuthToken
<1>3. ValidationInv'
  <2> SUFFICES ASSUME NEW d \in Calls, call'[d].path = "validate"
               PROVE  /\ call'[d].first # None
                      /\ (envAgentToken' => call'[d].first = Agent)
                      /\ (d \in settled' => call'[d].first = AuthToken')
    BY DEF ValidationInv
  <2>1. CASE d = c
    BY <1>2, <2>1 DEF CallBecomes
  <2>2. CASE d # c
    <3>1. call'[d] = call[d] /\ (d \in settled' => d \in settled)
      BY <2>2 DEF CallBecomes
    <3> QED
      BY <1>2, <3>1 DEF McpIInv, ValidationInv
  <2> QED
    BY <2>1, <2>2
<1>4. LoginsInv'
  <2>1. logins \in Nat /\ logins' \in Nat /\ logins <= logins' /\ sessionJwt \in Nat
    BY McpNumbers DEF McpIInv, McpTypeOK
  <2>2. ended' \subseteq 1 .. logins' /\ sessionJwt' \notin ended' /\ sessionJwt' <= logins'
    BY <2>1 DEF McpIInv, LoginsInv
  <2>3. ASSUME NEW d \in Calls PROVE call'[d].login \notin ended' /\ call'[d].login <= logins'
    <3>1. CASE d = c
      BY <3>1 DEF CallBecomes
    <3>2. CASE d # c
      <4>1. call'[d] = call[d] /\ call[d].login \in Nat
        BY <3>2, McpNumbers DEF CallBecomes, McpIInv, McpTypeOK
      <4>2. call[d].login \notin ended /\ call[d].login <= logins
        BY DEF McpIInv, LoginsInv
      <4> QED
        BY <2>1, <4>1, <4>2
    <3> QED
      BY <3>1, <3>2
  <2> QED
    BY <2>2, <2>3 DEF LoginsInv
<1> QED
  BY <1>1, <1>3, <1>4 DEF McpIInv

\* A request of a call: a decision goes with a login's token, a validation with the credentials of
\* this moment, an execution with them too, after a validation.
LEMMA SendsKeep ==
    ASSUME McpIInv, NEW c \in Calls, NEW next \in CallRecord, next.path \in Paths, NEW token \in Tokens,
           NEW auth \in BOOLEAN, Sends(c, next, token, auth),
           next.login \notin ended, next.login <= logins',
           next.path = "validate" => auth /\ token = AuthToken /\ next.first = AuthToken,
           next.path = "decide" => auth /\ token \in None .. MaxLogins,
           next.path = "execute" => /\ token = AuthToken /\ next.first # None
                                    /\ c \in settled \/ envAgentToken => next.first = AuthToken,
           settled' \in {settled, settled \cup {c}}, logins' \in logins .. MaxLogins,
           UNCHANGED <<envAgentToken, sessionJwt, ended>>
    PROVE  McpIInv'
<1>0. McpTypeOK
  BY DEF McpIInv
<1>1. /\ Idle \in CallRecord /\ Idle.login = 0 /\ Idle.path = "none"
      /\ 0 \notin ended /\ 0 <= logins'
  BY <1>0, IdleCall, McpNumbers DEF McpIInv, LoginsInv, McpTypeOK
<1>2. CASE CallBecomes(c, Idle) /\ sent' = sent
  <2>1. sent' \in SentRecord /\ HumanDecides' /\ OneIdentity'
    BY <1>0, <1>2 DEF McpIInv, McpTypeOK, SentRecord, HumanDecides, OneIdentity
  <2> QED
    BY <1>1, <1>2, <2>1, CallKeeps
<1>3. CASE /\ (auth => token # None)
           /\ \E new \in CallRecord : /\ CallBecomes(c, new)
                                      /\ new.path = next.path /\ new.login = next.login /\ new.first = next.first
           /\ sent' = IF next.path \in {"validate", "execute", "decide", "deploy"}
                      THEN [path |-> next.path, token |-> token, first |-> next.first, alone |-> c \in settled]
                      ELSE sent
  <2>1. PICK new \in CallRecord : /\ CallBecomes(c, new)
                                  /\ new.path = next.path /\ new.login = next.login /\ new.first = next.first
    BY <1>3
  <2>2. CASE sent' = sent
    <3>1. sent' \in SentRecord /\ HumanDecides' /\ OneIdentity'
      BY <1>0, <2>2 DEF McpIInv, McpTypeOK, SentRecord, HumanDecides, OneIdentity
    <3>2. new.path = "validate" => /\ new.first # None /\ (envAgentToken => new.first = Agent)
                                   /\ new.first = AuthToken
      BY <1>0, <1>3, <2>1, AuthTokenType
    <3> QED
      BY <2>1, <3>1, <3>2, CallKeeps
  <2>3. CASE sent' = [path |-> next.path, token |-> token, first |-> next.first, alone |-> c \in settled]
    <3>1. sent' \in SentRecord
      BY <2>3 DEF SentRecord, CallRecord
    <3>2. /\ sent'.path = next.path /\ sent'.token = token /\ sent'.first = next.first
          /\ sent'.alone = (c \in settled)
      BY <2>3
    <3>3. HumanDecides'
      <4>1. ASSUME next.path = "decide" PROVE token \in 1 .. MaxLogins
        BY <1>3, <4>1, McpNumbers
      <4> QED
        BY <3>2, <4>1 DEF HumanDecides
    <3>4. OneIdentity'
      BY <3>2 DEF OneIdentity
    <3>5. new.path = "validate" => /\ new.first # None /\ (envAgentToken => new.first = Agent)
                                   /\ new.first = AuthToken
      BY <1>0, <1>3, <2>1, AuthTokenType
    <3> QED
      BY <2>1, <3>1, <3>3, <3>4, <3>5, CallKeeps
  <2> QED
    BY <1>3, <2>2, <2>3
<1> QED
  BY <1>0, <1>2, <1>3, SendsFacts

\* A tool that is called: its request has no login, and no validation has come before it.
LEMMA CalledKeeps ==
    ASSUME McpIInv, NEW c \in Calls, NEW tool \in Tools, NEW path \in Paths \ {"validate", "execute"},
           NEW token \in Tokens, NEW auth \in BOOLEAN, Sends(c, Asks(tool, path), token, auth),
           path = "decide" => auth /\ token \in None .. MaxLogins,
           settled' = settled \cup {c},
           UNCHANGED <<envAgentToken, sessionJwt, logins, ended>>
    PROVE  McpIInv'
<1>1. McpTypeOK /\ 0 \notin ended /\ 0 <= logins' /\ logins' \in logins .. MaxLogins
  BY McpNumbers DEF McpIInv, LoginsInv, McpTypeOK
<1>2. /\ Asks(tool, path) \in CallRecord /\ Asks(tool, path).path = path /\ Asks(tool, path).login = 0
  BY AskedCall, McpNumbers
<1> QED
  BY <1>1, <1>2, SendsKeep

LEMMA RequestKeeps ==
    ASSUME McpIInv, NEW c \in Calls, NEW tool \in Tools, NEW path \in Paths \ {"validate", "execute", "decide"},
           NEW auth \in BOOLEAN, Request(c, tool, path, auth)
    PROVE  McpIInv'
<1>1. AuthToken \in Tokens
  BY AuthTokenType DEF McpIInv
<1> QED
  BY <1>1, CalledKeeps DEF Request, Called

LEMMA AskDecisionKeeps ==
    ASSUME McpIInv, NEW c \in Calls, AskDecision(c)
    PROVE  McpIInv'
<1>1. sessionJwt \in Tokens /\ sessionJwt \in None .. MaxLogins
  BY McpNumbers DEF McpIInv, McpTypeOK
<1>2. "decide" \in Tools /\ "decide" \in Paths \ {"validate", "execute"}
  BY DEF Tools, Paths
<1> QED
  BY <1>1, <1>2, CalledKeeps DEF AskDecision, Called

LEMMA RunCommandKeeps ==
    ASSUME McpIInv, NEW c \in Calls, NEW tool, RunCommand(c, tool)
    PROVE  McpIInv'
<1>1. tool \in Tools /\ "validate" \in Paths
  BY DEF RunCommand, Tools, Paths
<1>2. AuthToken \in Tokens
  BY AuthTokenType DEF McpIInv
<1> DEFINE next == [Asks(tool, "validate") EXCEPT !.first = AuthToken]
<1>3. next \in CallRecord /\ next.path = "validate" /\ next.login = 0 /\ next.first = AuthToken
  <2>1. Asks(tool, "validate") \in CallRecord /\ Asks(tool, "validate").path = "validate"
        /\ Asks(tool, "validate").login = 0
    BY <1>1, AskedCall, McpNumbers
  <2> QED
    BY <1>2, <2>1 DEF CallRecord
<1>4. Sends(c, next, AuthToken, TRUE) /\ settled' = settled \cup {c}
      /\ UNCHANGED <<envAgentToken, sessionJwt, logins, ended>>
  BY DEF RunCommand, Called
<1> HIDE DEF next
<1>5. 0 \notin ended /\ 0 <= logins' /\ logins' \in logins .. MaxLogins
  BY <1>4, McpNumbers DEF McpIInv, LoginsInv, McpTypeOK
<1> QED
  BY <1>1, <1>2, <1>3, <1>4, <1>5, SendsKeep

LEMMA LoginKeeps ==
    ASSUME McpIInv, NEW c \in Calls, Login(c)
    PROVE  McpIInv'
<1> DEFINE next == [Asks("login", "login") EXCEPT !.login = logins']
<1>1. logins \in 0 .. MaxLogins /\ logins' = logins + 1 /\ logins < MaxLogins /\ MaxLogins \in Nat
  BY McpNumbers DEF McpIInv, McpTypeOK, Login
<1>2. logins' \in None .. MaxLogins /\ logins' \notin ended /\ logins' <= logins' /\ logins' \in logins .. MaxLogins
  BY <1>1, McpNumbers DEF McpIInv, LoginsInv
<1>3. next \in CallRecord /\ next.path = "login" /\ next.login = logins'
  <2>1. Asks("login", "login") \in CallRecord /\ Asks("login", "login").path = "login"
    BY AskedCall DEF Tools, Paths
  <2> QED
    BY <1>2, <2>1 DEF CallRecord
<1>4. Sends(c, next, None, FALSE) /\ settled' = settled \cup {c} /\ UNCHANGED <<envAgentToken, sessionJwt, ended>>
  BY DEF Login, Called
<1>5. None \in Tokens /\ "login" \in Paths
  BY McpNumbers DEF Paths
<1> HIDE DEF next
<1> QED
  BY <1>2, <1>3, <1>4, <1>5, SendsKeep

-----------------------------------------------------------------------------
(* The MCP server's answers *)

LEMMA OverFacts ==
    ASSUME McpTypeOK, NEW c \in Calls, Over(c)
    PROVE  CallBecomes(c, Idle)
<1>1. call \in [Calls -> CallRecord] /\ call' = [call EXCEPT ![c] = Idle]
  BY DEF McpTypeOK, CallRecord, Over
<1> QED
  BY <1>1, IdleCall, CallExcept

\* A step that writes the session: no call in flight has the session to itself any more.
LEMMA WrittenKeeps ==
    ASSUME McpIInv, McpTypeOK', settled' = {}, UNCHANGED <<envAgentToken, sent>>, LoginsInv',
           \A d \in Calls : call'[d] \in {call[d], Idle}
    PROVE  McpIInv'
<1>1. ValidationInv'
  <2> SUFFICES ASSUME NEW d \in Calls, call'[d].path = "validate"
               PROVE  call'[d].first # None /\ (envAgentToken' => call'[d].first = Agent)
    BY DEF ValidationInv
  <2>1. call'[d] = call[d]
    BY IdleCall
  <2> QED
    BY <2>1 DEF McpIInv, ValidationInv
<1>2. HumanDecides' /\ OneIdentity'
  BY DEF McpIInv, HumanDecides, OneIdentity
<1> QED
  BY <1>1, <1>2 DEF McpIInv

LEMMA LogoutKeeps ==
    ASSUME McpIInv, NEW c \in Calls, Logout(c)
    PROVE  McpIInv'
<1>1. /\ sessionJwt' = None /\ settled' = {} /\ ended' = (1 .. logins) \ {call[d].login : d \in Calls}
      /\ UNCHANGED <<envAgentToken, call, logins, sent>>
  BY DEF Logout, Written
<1>2. logins \in 0 .. MaxLogins /\ MaxLogins \in Nat
  BY McpNumbers DEF McpIInv, McpTypeOK
<1>3. McpTypeOK'
  BY <1>1, <1>2, McpNumbers DEF McpIInv, McpTypeOK
<1>4. LoginsInv'
  BY <1>1, <1>2, McpNumbers DEF McpIInv, LoginsInv
<1> QED
  BY <1>1, <1>3, <1>4, WrittenKeeps

LEMMA LoginAnsweredKeeps ==
    ASSUME McpIInv, NEW c \in Calls, NEW ok \in BOOLEAN, LoginAnswered(c, ok)
    PROVE  McpIInv'
<1>1. CallBecomes(c, Idle) /\ UNCHANGED <<envAgentToken, logins, sent, ended>>
  BY OverFacts DEF McpIInv, LoginAnswered
<1>2. /\ Idle \in CallRecord /\ Idle.login = 0 /\ Idle.path = "none" /\ 0 \notin ended /\ 0 <= logins'
      /\ logins' \in logins .. MaxLogins
  BY <1>1, IdleCall, McpNumbers DEF McpIInv, LoginsInv, McpTypeOK
<1>3. CASE ~ok
  <2>1. UNCHANGED <<sessionJwt, settled>>
    BY <1>3 DEF LoginAnswered
  <2>2. sent' \in SentRecord /\ HumanDecides' /\ OneIdentity'
    BY <1>1 DEF McpIInv, McpTypeOK, SentRecord, HumanDecides, OneIdentity
  <2> QED
    BY <1>1, <1>2, <2>1, <2>2, CallKeeps
<1>4. CASE ok
  <2>1. sessionJwt' = call[c].login /\ settled' = {}
    BY <1>4 DEF LoginAnswered, Written
  <2>2. call[c].login \in None .. MaxLogins /\ call[c].login \notin ended /\ call[c].login <= logins
    BY DEF McpIInv, McpTypeOK, LoginsInv
  <2>3. McpTypeOK'
    BY <1>1, <2>1, <2>2 DEF McpIInv, McpTypeOK, CallBecomes, CallRecord
  <2>4. LoginsInv'
    BY <1>1, <1>2, <2>1, <2>2 DEF McpIInv, LoginsInv, CallBecomes
  <2>5. \A d \in Calls : call'[d] \in {call[d], Idle}
    BY <1>1 DEF CallBecomes
  <2> QED
    BY <1>1, <2>1, <2>3, <2>4, <2>5, WrittenKeeps
<1> QED
  BY <1>3, <1>4

LEMMA ToolAnsweredKeeps ==
    ASSUME McpIInv, NEW c \in Calls, ToolAnswered(c)
    PROVE  McpIInv'
<1>1. CallBecomes(c, Idle) /\ UNCHANGED <<envAgentToken, sessionJwt, logins, sent, ended, settled>>
  BY OverFacts DEF McpIInv, ToolAnswered
<1>2. /\ Idle \in CallRecord /\ Idle.login = 0 /\ Idle.path = "none" /\ 0 \notin ended /\ 0 <= logins'
      /\ logins' \in logins .. MaxLogins
  BY <1>1, IdleCall, McpNumbers DEF McpIInv, LoginsInv, McpTypeOK
<1>3. sent' \in SentRecord /\ HumanDecides' /\ OneIdentity'
  BY <1>1 DEF McpIInv, McpTypeOK, SentRecord, HumanDecides, OneIdentity
<1> QED
  BY <1>1, <1>2, <1>3, CallKeeps

\* A call that goes on with another request.
LEMMA GoesOn ==
    ASSUME McpIInv, NEW c \in Calls, NEW path \in Paths
    PROVE  /\ [call[c] EXCEPT !.path = path] \in CallRecord
           /\ [call[c] EXCEPT !.path = path].path = path
           /\ [call[c] EXCEPT !.path = path].login = call[c].login
           /\ [call[c] EXCEPT !.path = path].first = call[c].first
           /\ call[c].login \notin ended /\ call[c].login <= logins
           /\ logins \in logins .. MaxLogins
<1>1. call[c] \in CallRecord
  BY DEF McpIInv, McpTypeOK, CallRecord
<1>2. call[c].login \notin ended /\ call[c].login <= logins /\ logins \in logins .. MaxLogins
  BY McpNumbers DEF McpIInv, McpTypeOK, LoginsInv
<1>3. /\ [call[c] EXCEPT !.path = path] \in CallRecord
      /\ [call[c] EXCEPT !.path = path].path = path
      /\ [call[c] EXCEPT !.path = path].login = call[c].login
      /\ [call[c] EXCEPT !.path = path].first = call[c].first
  BY <1>1 DEF CallRecord
<1> QED
  BY <1>2, <1>3

LEMMA WhoamiNotFoundKeeps ==
    ASSUME McpIInv, NEW c \in Calls, WhoamiNotFound(c)
    PROVE  McpIInv'
<1> DEFINE next == [call[c] EXCEPT !.path = "users/me"]
<1>1. "users/me" \in Paths /\ AuthToken \in Tokens
  BY AuthTokenType DEF Paths, McpIInv
<1>2. /\ next \in CallRecord /\ next.path = "users/me" /\ next.login \notin ended /\ next.login <= logins
      /\ logins \in logins .. MaxLogins
  BY <1>1, GoesOn
<1>3. Sends(c, next, AuthToken, TRUE) /\ UNCHANGED <<envAgentToken, sessionJwt, logins, ended, settled>>
  BY DEF WhoamiNotFound
<1> HIDE DEF next
<1> QED
  BY <1>1, <1>2, <1>3, SendsKeep

LEMMA ExecuteValidatedKeeps ==
    ASSUME McpIInv, NEW c \in Calls, ExecuteValidated(c)
    PROVE  McpIInv'
<1> DEFINE next == [call[c] EXCEPT !.path = "execute"]
<1>1. "execute" \in Paths /\ AuthToken \in Tokens /\ (envAgentToken => AuthToken = Agent)
  BY AuthTokenType DEF Paths, McpIInv
<1>2. /\ next \in CallRecord /\ next.path = "execute" /\ next.login \notin ended /\ next.login <= logins
      /\ logins \in logins .. MaxLogins /\ next.first = call[c].first
  BY <1>1, GoesOn
<1>3. Sends(c, next, AuthToken, TRUE) /\ UNCHANGED <<envAgentToken, sessionJwt, logins, ended, settled>>
      /\ call[c].path = "validate"
  BY DEF ExecuteValidated
<1>4. /\ call[c].first # None
      /\ c \in settled \/ envAgentToken => call[c].first = AuthToken
  BY <1>1, <1>3 DEF McpIInv, ValidationInv
<1> HIDE DEF next
<1> QED
  BY <1>1, <1>2, <1>3, <1>4, SendsKeep

LEMMA McpStep ==
    ASSUME McpIInv, [McpNext]_mcpVars
    PROVE  McpIInv'
<1>1. CASE UNCHANGED mcpVars
  BY <1>1 DEF mcpVars, McpIInv, McpTypeOK, ValidationInv, LoginsInv, HumanDecides, OneIdentity, AuthToken
<1>2. CASE McpNext
  <2>1. PICK c \in Calls :
          \/ Request(c, "read", "read", TRUE) \/ Request(c, "public", "public", FALSE)
          \/ Request(c, "deployConfirmed", "deploy", TRUE)
          \/ Whoami(c) \/ AskDecision(c) \/ Login(c) \/ Logout(c)
          \/ \E tool \in {"run", "runConfirmed"} : RunCommand(c, tool)
          \/ \E ok \in BOOLEAN : LoginAnswered(c, ok)
          \/ WhoamiNotFound(c) \/ ExecuteValidated(c) \/ ToolAnswered(c)
    BY <1>2 DEF McpNext
  <2>2. /\ {"read", "public", "deployConfirmed", "whoami"} \subseteq Tools
        /\ {"read", "public", "deploy", "agent-tokens/me", "users/me"} \subseteq Paths \ {"validate", "execute", "decide"}
    BY DEF Tools, Paths
  <2>3. /\ Request(c, "read", "read", TRUE) => McpIInv'
        /\ Request(c, "public", "public", FALSE) => McpIInv'
        /\ Request(c, "deployConfirmed", "deploy", TRUE) => McpIInv'
    BY <2>2, RequestKeeps
  <2>4. Whoami(c) => McpIInv'
    BY <2>2, RequestKeeps DEF Whoami
  <2>5. AskDecision(c) => McpIInv'
    BY AskDecisionKeeps
  <2>6. Login(c) => McpIInv'
    BY LoginKeeps
  <2>7. Logout(c) => McpIInv'
    BY LogoutKeeps
  <2>8. (\E tool \in {"run", "runConfirmed"} : RunCommand(c, tool)) => McpIInv'
    BY RunCommandKeeps
  <2>9. (\E ok \in BOOLEAN : LoginAnswered(c, ok)) => McpIInv'
    BY LoginAnsweredKeeps
  <2>10. WhoamiNotFound(c) => McpIInv'
    BY WhoamiNotFoundKeeps
  <2>11. ExecuteValidated(c) => McpIInv'
    BY ExecuteValidatedKeeps
  <2>12. ToolAnswered(c) => McpIInv'
    BY ToolAnsweredKeeps
  <2> QED
    BY <2>1, <2>3, <2>4, <2>5, <2>6, <2>7, <2>8, <2>9, <2>10, <2>11, <2>12
<1> QED
  BY <1>1, <1>2

LEMMA McpSound == McpIInv => McpInv
BY DEF McpIInv, McpInv, LoginsInv, LogoutEnds

-----------------------------------------------------------------------------
(* Together: one part of the agents moves, the others stand still *)

\* The inductive invariant of the whole: one of each part.
AgentsIInv == IndInv /\ TokenInv /\ GuardIInv /\ McpIInv

\* A step of one part keeps the invariants of all four: it leaves the others unchanged.
LEMMA AgentsStep ==
    ASSUME AgentsIInv, [MCNext]_allVars
    PROVE  AgentsIInv'
<1>1. [Next]_vars /\ [TokensNext]_tokenVars /\ [GuardNext]_guardVars /\ [McpNext]_mcpVars
  BY DEF MCNext, allVars
<1>2. IndInv'
  BY <1>1, NextKeeps DEF AgentsIInv
<1>3. TokenInv'
  BY <1>1, TokensStep DEF AgentsIInv
<1>4. GuardIInv'
  BY <1>1, GuardStep DEF AgentsIInv
<1>5. McpIInv'
  BY <1>1, McpStep DEF AgentsIInv
<1> QED
  BY <1>2, <1>3, <1>4, <1>5 DEF AgentsIInv

\* Every state of the agents' commands and tokens is of its type; a command that ran was judged by the
\* words it runs with, carries no chaining and no forbidden words, and ran with the approval its class
\* asks for (command_guard.py); and the MCP server sends approvals with a login's token only, keeps
\* no ended login, and validates and executes a command as one identity (client.ts).
THEOREM AgentsSafe == MCSpec => []AgentsInv
<1>1. MCInit => AgentsIInv
  BY InitIndInv, TokensInitInv, GuardInitInv, McpInitInv DEF MCInit, AgentsIInv
<1>2. AgentsIInv /\ [MCNext]_allVars => AgentsIInv'
  BY AgentsStep
<1>3. AgentsIInv => AgentsInv
  BY GuardSound, McpSound DEF AgentsIInv, AgentsInv, IndInv, TokenInv
<1> QED
  BY <1>1, <1>2, <1>3, PTL DEF MCSpec
=============================================================================
