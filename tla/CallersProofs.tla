---------------------------- MODULE CallersProofs ---------------------------
(***************************************************************************)
(* Proofs about the programs that call the API: the SDK client of a        *)
(* service (SdkClient) and its buffers (SdkBuffers), the session and a     *)
(* page of the portal (PortalSession, ProjectPage), the bug reporters of a *)
(* page (BugReporter), and the five together (MCSdk).                      *)
(***************************************************************************)
EXTENDS MCSdk, SequenceTheorems, FiniteSetTheorems, TLAPS
-----------------------------------------------------------------------------
(* The clients of the SDK *)

Database == [made : BOOLEAN, trying : BOOLEAN, connected : BOOLEAN, ending : BOOLEAN, timer : BOOLEAN,
             retries : 0 .. MaxRetries, failures : 0 .. MaxRetries + 1,
             link : {"none", "up", "dials"}, left : BOOLEAN]
Client == [ini : {"new", "register", "load", "connect", "done"},
           shut : {"no", "deregister", "settle", "down"}, reg : Services \cup {"none"},
           beating : BOOLEAN, refreshing : BOOLEAN, db : Database, orderly : BOOLEAN]

\* An attempt or the wait for the next one comes after as many failures as there were reconnects; there
\* is no pool before the manager is made; and a client that was up when it was shut down starts nothing
\* again, and waits for the end of the pool it has, or of the one client ioredis, which is connected.
Attempts(db) ==
    /\ ~(db.trying /\ db.timer)
    /\ db.trying \/ db.timer => db.failures = db.retries
    /\ ~db.made => ~db.trying /\ ~db.connected /\ ~db.ending /\ ~db.timer
                  /\ db.retries = 0 /\ db.failures = 0 /\ db.link = "none"
Stopped(x) ==
    x.orderly => /\ x.ini = "done" /\ x.shut # "no"
                 /\ ~x.beating /\ ~x.refreshing /\ ~x.db.timer /\ ~x.db.trying
                 /\ x.db.link # "dials" /\ ~x.db.left
                 /\ x.db.connected \/ x.db.link # "none" => x.db.ending /\ x.shut # "down"
Sane(c, x) == x \in Client /\ x.reg \in {"none", NameOf[c]} /\ Attempts(x.db) /\ Stopped(x)

Addressed(m) ==
    /\ m \in [from : Clients, kind : {"register", "deregister", "heartbeat"}, to : Services \cup {"none"}]
    /\ m.kind = "register" => m.to = NameOf[m.from]
    /\ m.kind = "deregister" => m.to = Project

ClientIInv ==
    /\ registry \in [Services -> {"none", "online", "offline"}]
    /\ \A m \in msgs : Addressed(m)
    /\ cl \in [Clients -> Client] /\ \A c \in Clients : Sane(c, cl[c])

LEMMA ClientSound == ClientIInv => ClientInv
<1> SUFFICES ASSUME ClientIInv PROVE ClientInv
  OBVIOUS
<1>1. \A m \in msgs : m \in [from : Clients, kind : Kinds, to : Services \cup {"none"}]
  BY DEF ClientIInv, Addressed, Kinds
<1>2. ASSUME NEW c \in Clients
      PROVE  /\ cl[c].ini \in {"new", "register", "load", "connect", "done"}
             /\ cl[c].shut \in {"no", "deregister", "settle", "down"}
             /\ cl[c].reg \in {"none", NameOf[c]}
             /\ cl[c].db.retries \in 0 .. MaxRetries /\ cl[c].db.failures \in Nat
             /\ cl[c].db.failures <= MaxRetries + 1
             /\ cl[c].db.link \in {"none", "up", "dials"}
  BY SdkClientAssumption DEF ClientIInv, Sane, Client, Database
<1>3. ASSUME NEW c \in Clients, cl[c].shut = "down", cl[c].orderly
      PROVE  /\ ~cl[c].beating /\ ~cl[c].refreshing /\ ~cl[c].db.connected /\ ~cl[c].db.timer /\ ~cl[c].db.trying
             /\ cl[c].db.link = "none" /\ ~cl[c].db.left
  BY <1>3 DEF ClientIInv, Sane, Stopped
<1>4. ClientTypeOK
  BY <1>1, <1>2 DEF ClientTypeOK, ClientIInv
<1>5. NothingLeftRunning
  BY <1>3 DEF NothingLeftRunning
<1>6. RetriesBounded
  BY <1>2 DEF RetriesBounded
<1> QED
  BY <1>4, <1>5, <1>6 DEF ClientInv

LEMMA NewClient == \A c \in Clients : Sane(c, New)
<1>1. NoDb \in Database
  BY SdkClientAssumption DEF NoDb, Database
<1>2. New \in Client
  BY <1>1 DEF New, Client
<1>3. New.reg = "none" /\ New.orderly = FALSE /\ New.db = NoDb
  BY DEF New
<1>4. /\ NoDb.trying = FALSE /\ NoDb.timer = FALSE /\ NoDb.connected = FALSE /\ NoDb.ending = FALSE
      /\ NoDb.retries = 0 /\ NoDb.failures = 0 /\ NoDb.link = "none"
  BY DEF NoDb
<1> QED
  BY <1>2, <1>3, <1>4, Zenon DEF Sane, Attempts, Stopped

LEMMA ClientInitIInv == ClientInit => ClientIInv
BY NewClient DEF ClientInit, ClientIInv, Sane

\* A client moves to a state as it should be, with the messages and the server's rows as they should be.
LEMMA BecomeKeeps ==
    ASSUME ClientIInv, NEW c \in Clients, NEW new, Become(c, new), Sane(c, new),
           \A m \in msgs' : m \in msgs \/ Addressed(m),
           registry' \in [Services -> {"none", "online", "offline"}]
    PROVE  ClientIInv'
<1>1. cl' \in [Clients -> Client] /\ \A d \in Clients : cl'[d] = IF d = c THEN new ELSE cl[d]
  BY DEF Become, ClientIInv, Sane
<1>2. \A d \in Clients : Sane(d, cl'[d])
  BY <1>1 DEF ClientIInv
<1> QED
  BY <1>1, <1>2 DEF ClientIInv

\* What a client's state says of its fields.
LEMMA ClientFields ==
    ASSUME ClientIInv, NEW c \in Clients
    PROVE  /\ cl[c] \in Client /\ cl[c].db \in Database
           /\ Sane(c, cl[c]) /\ Attempts(cl[c].db) /\ Stopped(cl[c])
BY DEF ClientIInv, Sane, Client

LEMMA BeginKeeps ==
    ASSUME ClientIInv, NEW c \in Clients, Begin(c)
    PROVE  ClientIInv'
<1> DEFINE x == cl[c]
           new == [x EXCEPT !.ini = "register"]
<1>1. x \in Client /\ Sane(c, x) /\ x.ini = "new"
  BY ClientFields DEF Begin
<1>2. /\ new \in Client /\ new.reg = x.reg /\ new.db = x.db /\ new.orderly = x.orderly
  BY <1>1 DEF Client
<1>3. x.orderly = FALSE
  BY <1>1 DEF Sane, Stopped, Client
<1>4. Sane(c, new)
  BY <1>1, <1>2, <1>3, Zenon DEF Sane, Stopped
<1>5. Addressed(Msg(c, "register", NameOf[c]))
  BY SdkClientAssumption DEF Addressed, Msg
<1> QED
  BY <1>4, <1>5, BecomeKeeps DEF Begin, ClientIInv

LEMMA UnregisteredKeeps ==
    ASSUME ClientIInv, NEW c \in Clients, Unregistered(c)
    PROVE  ClientIInv'
<1> DEFINE x == cl[c]
           new == [x EXCEPT !.ini = "load"]
<1>1. x \in Client /\ Sane(c, x) /\ x.ini = "register"
  BY ClientFields DEF Unregistered
<1>2. /\ new \in Client /\ new.reg = x.reg /\ new.db = x.db /\ new.orderly = x.orderly
  BY <1>1 DEF Client
<1>3. x.orderly = FALSE
  BY <1>1 DEF Sane, Stopped, Client
<1>4. Sane(c, new)
  BY <1>1, <1>2, <1>3, Zenon DEF Sane, Stopped
<1>5. \A m \in msgs' : m \in msgs
  BY DEF Unregistered
<1> QED
  BY <1>4, <1>5, BecomeKeeps DEF Unregistered, ClientIInv

LEMMA LoadedKeeps ==
    ASSUME ClientIInv, NEW c \in Clients, Loaded(c)
    PROVE  ClientIInv'
<1> DEFINE x == cl[c]
           new == [x EXCEPT !.ini = IF c \in DbClients THEN "connect" ELSE "done",
                            !.beating = TRUE, !.refreshing = TRUE]
<1>1. x \in Client /\ Sane(c, x) /\ x.ini = "load"
  BY ClientFields DEF Loaded
<1>2. /\ new \in Client /\ new.reg = x.reg /\ new.db = x.db /\ new.orderly = x.orderly
  BY <1>1 DEF Client
<1>3. x.orderly = FALSE
  BY <1>1 DEF Sane, Stopped, Client
<1>4. Sane(c, new)
  BY <1>1, <1>2, <1>3, Zenon DEF Sane, Stopped
<1> QED
  BY <1>4, BecomeKeeps DEF Loaded, ClientIInv

LEMMA BeatKeeps ==
    ASSUME ClientIInv, NEW c \in Clients, Beat(c)
    PROVE  ClientIInv'
<1>1. cl[c].reg \in Services \cup {"none"}
  BY ClientFields DEF Client
<1>2. Addressed(Msg(c, "heartbeat", cl[c].reg))
  BY <1>1 DEF Addressed, Msg
<1> QED
  BY <1>2 DEF Beat, ClientIInv

LEMMA ShutdownKeeps ==
    ASSUME ClientIInv, NEW c \in Clients, Shutdown(c)
    PROVE  ClientIInv'
<1> DEFINE x == cl[c]
           orderly == /\ x.ini = "done" /\ ~x.db.timer /\ ~x.db.trying
                      /\ x.db.link # "dials" /\ ~x.db.left
           db == [x.db EXCEPT !.ending = x.db.made]
           new == [x EXCEPT !.shut = "deregister", !.beating = FALSE, !.refreshing = FALSE,
                            !.db.ending = x.db.made, !.orderly = orderly]
<1>1. x \in Client /\ x.db \in Database /\ Sane(c, x) /\ Attempts(x.db)
  BY ClientFields
<1>2. /\ db \in Database /\ db.made = x.db.made /\ db.trying = x.db.trying /\ db.timer = x.db.timer
      /\ db.failures = x.db.failures /\ db.retries = x.db.retries
      /\ db.connected = x.db.connected /\ db.ending = x.db.made
      /\ db.link = x.db.link /\ db.left = x.db.left
  BY <1>1 DEF Database
<1>3. orderly \in BOOLEAN
  OBVIOUS
<1> HIDE DEF orderly
<1>4. /\ new \in Client /\ new.reg = x.reg /\ new.ini = x.ini /\ new.shut = "deregister" /\ new.orderly = orderly
      /\ new.beating = FALSE /\ new.refreshing = FALSE /\ new.db = db
  <2> HIDE DEF db
  <2>1. new = [x EXCEPT !.shut = "deregister", !.beating = FALSE, !.refreshing = FALSE,
                            !.db = db, !.orderly = orderly]
    BY DEF db
  <2> HIDE DEF new
  <2> QED
    BY <1>1, <1>2, <1>3, <2>1 DEF Client
<1>5. x.db.connected \/ x.db.link # "none" => x.db.made
  BY <1>1 DEF Attempts
<1> HIDE DEF new, db
<1>7. Attempts(db)
  BY <1>1, <1>2, Zenon DEF Attempts
<1>8. Stopped(new)
  BY <1>2, <1>4, <1>5, Zenon DEF Stopped, orderly
<1>9. Sane(c, new)
  BY <1>1, <1>4, <1>7, <1>8, Zenon DEF Sane
<1>10. Addressed(Msg(c, "deregister", Project))
  BY SdkClientAssumption DEF Addressed, Msg
<1>11. Become(c, new)
  BY DEF Shutdown, new, orderly
<1> QED
  BY <1>9, <1>10, <1>11, BecomeKeeps DEF Shutdown, ClientIInv

\* What the database manager does: the client has other attempts, and may be through with init.
LEMMA ManagerKeeps ==
    ASSUME ClientIInv, NEW c \in Clients, NEW db \in Database, Attempts(db), NEW i \in {cl[c].ini, "done"},
           cl[c].orderly => /\ ~db.timer /\ ~db.trying /\ db.link # "dials" /\ ~db.left
                            /\ db.connected \/ db.link # "none" => db.ending /\ cl[c].shut # "down",
           Become(c, [cl[c] EXCEPT !.ini = i, !.db = db]), UNCHANGED <<registry, msgs>>
    PROVE  ClientIInv'
<1> DEFINE x == cl[c]
           new == [x EXCEPT !.ini = i, !.db = db]
<1>1. x \in Client /\ Sane(c, x) /\ Stopped(x)
  BY ClientFields
<1>2. i \in {"new", "register", "load", "connect", "done"}
  BY <1>1 DEF Client
<1>3. /\ new \in Client /\ new.reg = x.reg /\ new.ini = i /\ new.shut = x.shut /\ new.orderly = x.orderly
      /\ new.beating = x.beating /\ new.refreshing = x.refreshing /\ new.db = db
  BY <1>1, <1>2 DEF Client
<1>4. x.orderly => x.ini = "done"
  BY <1>1 DEF Stopped
<1>5. x.orderly => i = "done"
  BY <1>4
<1>6. Become(c, new)
  OBVIOUS
<1> HIDE DEF new
<1>7. Stopped(new)
  BY <1>1, <1>3, <1>5, Zenon DEF Stopped
<1>8. Sane(c, new)
  BY <1>1, <1>3, <1>7, Zenon DEF Sane
<1> QED
  BY <1>6, <1>8, BecomeKeeps DEF ClientIInv

LEMMA ConnectKeeps ==
    ASSUME ClientIInv, NEW c \in Clients, Connect(c)
    PROVE  ClientIInv'
<1> DEFINE x == cl[c]
           db == [x.db EXCEPT !.made = TRUE, !.trying = TRUE]
<1>1. x \in Client /\ x.db \in Database /\ x.ini = "connect" /\ Stopped(x)
      /\ ~x.db.timer /\ x.db.failures = x.db.retries
  BY ClientFields, Zenon DEF Connect, Attempts
<1>2. /\ db \in Database /\ db.made = TRUE /\ db.timer = x.db.timer
      /\ db.failures = x.db.failures /\ db.retries = x.db.retries
  BY <1>1 DEF Database
<1>3. ~x.orderly
  BY <1>1 DEF Stopped
<1>4. [x EXCEPT !.db.made = TRUE, !.db.trying = TRUE] = [x EXCEPT !.ini = x.ini, !.db = db]
  BY <1>1 DEF Client
<1>5. Become(c, [x EXCEPT !.ini = x.ini, !.db = db]) /\ UNCHANGED <<registry, msgs>>
  BY <1>4 DEF Connect
<1> HIDE DEF db
<1>6. Attempts(db)
  BY <1>1, <1>2, Zenon DEF Attempts
<1> QED
  BY <1>2, <1>3, <1>5, <1>6, ManagerKeeps

\* Of an attempt that is answered.
LEMMA TryingFacts ==
    ASSUME ClientIInv, NEW c \in Clients, cl[c].db.trying
    PROVE  ~cl[c].orderly /\ cl[c].db.made /\ ~cl[c].db.timer /\ cl[c].db.failures = cl[c].db.retries
<1>1. Sane(c, cl[c]) /\ Attempts(cl[c].db) /\ Stopped(cl[c])
  BY ClientFields
<1>2. cl[c].db.made
  BY <1>1 DEF Attempts
<1> QED
  BY <1>1, <1>2, Zenon DEF Attempts, Stopped

LEMMA ConnectedKeeps ==
    ASSUME ClientIInv, NEW c \in Clients, Connected(c)
    PROVE  ClientIInv'
<1> DEFINE x == cl[c]
           db == [x.db EXCEPT !.trying = FALSE, !.connected = TRUE, !.retries = 0, !.failures = 0,
                              !.link = IF c \in Redis THEN "up" ELSE @]
           i == IF x.ini = "connect" THEN "done" ELSE x.ini
<1>1. x \in Client /\ x.db \in Database
  BY ClientFields
<1>2. ~x.orderly /\ x.db.made /\ ~x.db.timer
  BY TryingFacts DEF Connected
<1>3. db \in Database /\ db.made = x.db.made /\ db.timer = x.db.timer /\ ~db.trying
  <2>1. 0 \in 0 .. MaxRetries /\ 0 \in 0 .. MaxRetries + 1
    BY SdkClientAssumption
  <2> QED
    BY <1>1, <2>1 DEF Database
<1>4. [[x EXCEPT !.db.trying = FALSE, !.db.connected = TRUE, !.db.retries = 0, !.db.failures = 0,
                 !.db.link = IF c \in Redis THEN "up" ELSE @]
          EXCEPT !.ini = IF @ = "connect" THEN "done" ELSE @] = [x EXCEPT !.ini = i, !.db = db]
  <2>1. [x EXCEPT !.db.trying = FALSE, !.db.connected = TRUE, !.db.retries = 0, !.db.failures = 0,
                  !.db.link = IF c \in Redis THEN "up" ELSE @] = [x EXCEPT !.db = db]
    BY <1>1 DEF Client
  <2> HIDE DEF db
  <2>2. [[x EXCEPT !.db = db] EXCEPT !.ini = IF @ = "connect" THEN "done" ELSE @]
           = [x EXCEPT !.ini = i, !.db = db]
    BY <1>1 DEF Client
  <2> QED
    BY <2>1, <2>2
<1>5. Become(c, [x EXCEPT !.ini = i, !.db = db]) /\ UNCHANGED <<registry, msgs>>
  BY <1>4 DEF Connected, Continues
<1>6. i \in {x.ini, "done"}
  OBVIOUS
<1> HIDE DEF db, i
<1>7. Attempts(db)
  BY <1>2, <1>3, Zenon DEF Attempts
<1> QED
  BY <1>2, <1>3, <1>5, <1>6, <1>7, ManagerKeeps

LEMMA RefusedKeeps ==
    ASSUME ClientIInv, NEW c \in Clients, Refused(c)
    PROVE  ClientIInv'
<1> DEFINE x == cl[c]
           failed == [x.db EXCEPT !.trying = FALSE, !.connected = FALSE, !.failures = @ + 1,
                                  !.link = IF c \in Redis THEN "dials" ELSE @]
           db == Retry(failed)
           i == IF x.ini = "connect" THEN "done" ELSE x.ini
<1>1. x \in Client /\ x.db \in Database
  BY ClientFields
<1>2. ~x.orderly /\ x.db.made /\ ~x.db.timer /\ x.db.failures = x.db.retries
  BY TryingFacts DEF Refused
<1>3. /\ failed \in Database /\ failed.made = x.db.made /\ failed.timer = x.db.timer /\ ~failed.trying
      /\ failed.retries = x.db.retries /\ failed.failures = x.db.retries + 1
  <2>1. x.db.failures + 1 \in 0 .. MaxRetries + 1
    BY <1>1, <1>2, SdkClientAssumption DEF Database
  <2> QED
    BY <1>1, <1>2, <2>1 DEF Database
<1>4. [[x EXCEPT !.db = db] EXCEPT !.ini = IF @ = "connect" THEN "done" ELSE @] = [x EXCEPT !.ini = i, !.db = db]
  BY <1>1 DEF Client
<1>5. Become(c, [x EXCEPT !.ini = i, !.db = db]) /\ UNCHANGED <<registry, msgs>>
  BY <1>4 DEF Refused, Continues
<1>6. i \in {x.ini, "done"}
  OBVIOUS
<1> HIDE DEF failed
<1>7. /\ db \in Database /\ db.made = failed.made /\ ~db.trying
      /\ db.timer => db.failures = db.retries
  <2>1. CASE failed.retries >= MaxRetries
    BY <1>2, <1>3, <2>1 DEF Retry
  <2>2. CASE ~(failed.retries >= MaxRetries)
    <3> DEFINE more == [failed EXCEPT !.retries = @ + 1, !.timer = TRUE]
    <3>1. failed.retries + 1 \in 0 .. MaxRetries
      BY <1>3, <2>2, SdkClientAssumption DEF Database
    <3>2. /\ more \in Database /\ more.made = failed.made /\ more.trying = failed.trying
          /\ more.failures = failed.failures /\ more.retries = failed.retries + 1
      BY <1>3, <3>1 DEF Database
    <3>3. db = more
      BY <2>2 DEF Retry
    <3> HIDE DEF more, db
    <3> QED
      BY <1>3, <3>2, <3>3
  <2> QED
    BY <2>1, <2>2
<1> HIDE DEF db, i
<1>8. Attempts(db)
  BY <1>2, <1>3, <1>7, Zenon DEF Attempts
<1> QED
  BY <1>2, <1>5, <1>6, <1>7, <1>8, ManagerKeeps

LEMMA ReconnectKeeps ==
    ASSUME ClientIInv, NEW c \in Clients, Reconnect(c)
    PROVE  ClientIInv'
<1> DEFINE x == cl[c]
           db == [x.db EXCEPT !.timer = FALSE, !.trying = TRUE,
                              !.left = @ \/ x.db.link # "none", !.link = "none"]
<1>1. x \in Client /\ x.db \in Database /\ Attempts(x.db) /\ Stopped(x) /\ x.db.timer
  BY ClientFields DEF Reconnect
<1>3. ~x.orderly /\ x.db.made /\ x.db.failures = x.db.retries
  BY <1>1 DEF Attempts, Stopped
<1>4. /\ db \in Database /\ db.made = x.db.made /\ ~db.timer
      /\ db.failures = x.db.failures /\ db.retries = x.db.retries
  BY <1>1 DEF Database
<1>5. [x EXCEPT !.db.timer = FALSE, !.db.trying = TRUE,
                !.db.left = @ \/ x.db.link # "none", !.db.link = "none"] = [x EXCEPT !.ini = x.ini, !.db = db]
  BY <1>1 DEF Client
<1>6. Become(c, [x EXCEPT !.ini = x.ini, !.db = db]) /\ UNCHANGED <<registry, msgs>>
  BY <1>5 DEF Reconnect
<1> HIDE DEF db
<1>7. Attempts(db)
  BY <1>3, <1>4, Zenon DEF Attempts
<1> QED
  BY <1>3, <1>4, <1>6, <1>7, ManagerKeeps

LEMMA RedialKeeps ==
    ASSUME ClientIInv, NEW c \in Clients, Redial(c)
    PROVE  ClientIInv'
<1> DEFINE x == cl[c]
           to == IF x.db.link = "up" THEN "dials" ELSE "up"
           db == [x.db EXCEPT !.link = to]
<1>1. /\ x \in Client /\ x.db \in Database /\ Attempts(x.db) /\ Stopped(x)
      /\ x.db.link # "none" /\ ~x.db.ending
  BY ClientFields DEF Redial
<1>3. x.db.made /\ ~x.orderly
  BY <1>1, Zenon DEF Attempts, Stopped
<1>4. /\ db \in Database /\ db.made = x.db.made /\ db.timer = x.db.timer /\ db.trying = x.db.trying
      /\ db.failures = x.db.failures /\ db.retries = x.db.retries
  BY <1>1 DEF Database
<1>5. [x EXCEPT !.db.link = IF @ = "up" THEN "dials" ELSE "up"] = [x EXCEPT !.ini = x.ini, !.db = db]
  BY <1>1 DEF Client, Database
<1>6. Become(c, [x EXCEPT !.ini = x.ini, !.db = db]) /\ UNCHANGED <<registry, msgs>>
  BY <1>5 DEF Redial
<1> HIDE DEF db
<1>7. Attempts(db)
  BY <1>1, <1>3, <1>4, Zenon DEF Attempts
<1> QED
  BY <1>3, <1>4, <1>6, <1>7, ManagerKeeps

LEMMA EndedKeeps ==
    ASSUME ClientIInv, NEW c \in Clients, Ended(c)
    PROVE  ClientIInv'
<1> DEFINE x == cl[c]
           closed == [x.db EXCEPT !.ending = FALSE, !.connected = FALSE, !.link = "none"]
           failed == [x.db EXCEPT !.ending = FALSE]
<1>1. x \in Client /\ x.db \in Database /\ Attempts(x.db) /\ Stopped(x) /\ x.db.ending
  BY ClientFields DEF Ended
<1>2. x.db.made
  BY <1>1 DEF Attempts
<1>3. UNCHANGED <<registry, msgs>>
  BY DEF Ended
<1>4. CASE Become(c, [x EXCEPT !.db.ending = FALSE, !.db.connected = FALSE, !.db.link = "none"])
  <2>1. /\ closed \in Database /\ closed.made = x.db.made /\ closed.timer = x.db.timer
        /\ closed.trying = x.db.trying /\ closed.failures = x.db.failures /\ closed.retries = x.db.retries
        /\ ~closed.connected /\ closed.link = "none" /\ closed.left = x.db.left
    BY <1>1 DEF Database
  <2>2. [x EXCEPT !.db.ending = FALSE, !.db.connected = FALSE, !.db.link = "none"]
           = [x EXCEPT !.ini = x.ini, !.db = closed]
    BY <1>1 DEF Client
  <2>3. Become(c, [x EXCEPT !.ini = x.ini, !.db = closed])
    BY <1>4, <2>2
  <2> HIDE DEF closed
  <2>4. Attempts(closed)
    BY <1>1, <1>2, <2>1, Zenon DEF Attempts
  <2>5. x.orderly => ~closed.timer /\ ~closed.trying /\ ~closed.left
    BY <1>1, <2>1, Zenon DEF Stopped
  <2> QED
    BY <1>3, <2>1, <2>3, <2>4, <2>5, ManagerKeeps
<1>5. CASE x.db.link = "dials" /\ Become(c, [x EXCEPT !.db.ending = FALSE])
  <2>1. /\ failed \in Database /\ failed.made = x.db.made /\ failed.timer = x.db.timer
        /\ failed.trying = x.db.trying /\ failed.failures = x.db.failures /\ failed.retries = x.db.retries
    BY <1>1 DEF Database
  <2>2. [x EXCEPT !.db.ending = FALSE] = [x EXCEPT !.ini = x.ini, !.db = failed]
    BY <1>1 DEF Client
  <2>3. Become(c, [x EXCEPT !.ini = x.ini, !.db = failed])
    BY <1>5, <2>2
  <2> HIDE DEF failed
  <2>4. Attempts(failed)
    BY <1>1, <1>2, <2>1, Zenon DEF Attempts
  <2>5. ~x.orderly
    BY <1>1, <1>5, Zenon DEF Stopped
  <2> QED
    BY <1>3, <2>1, <2>3, <2>4, <2>5, ManagerKeeps
<1> QED
  BY <1>4, <1>5 DEF Ended

\* A client that was shut down goes on to the end of it.
LEMMA WindsDown ==
    ASSUME NEW c \in Clients, NEW x, Sane(c, x), NEW s \in {"settle", "down"}, x.shut # "no",
           s = "down" => ~x.db.ending
    PROVE  Sane(c, [x EXCEPT !.shut = s])
<1> DEFINE new == [x EXCEPT !.shut = s]
<1>1. x \in Client /\ Stopped(x)
  BY DEF Sane
<1>2. /\ new \in Client /\ new.reg = x.reg /\ new.ini = x.ini /\ new.shut = s /\ new.orderly = x.orderly
      /\ new.beating = x.beating /\ new.refreshing = x.refreshing /\ new.db = x.db
  BY <1>1 DEF Client
<1>3. s # "no"
  OBVIOUS
<1> HIDE DEF new
<1>4. Stopped(new)
  BY <1>1, <1>2, <1>3, Zenon DEF Stopped
<1>5. Sane(c, new)
  BY <1>2, <1>4, Zenon DEF Sane
<1> QED
  BY <1>5 DEF new

LEMMA UndeliveredKeeps ==
    ASSUME ClientIInv, NEW c \in Clients, Undelivered(c)
    PROVE  ClientIInv'
<1>1. Sane(c, [cl[c] EXCEPT !.shut = "settle"])
  BY ClientFields, WindsDown DEF Undelivered
<1>2. \A m \in msgs' : m \in msgs
  BY DEF Undelivered
<1> QED
  BY <1>1, <1>2, BecomeKeeps DEF Undelivered, ClientIInv

LEMMA DownKeeps ==
    ASSUME ClientIInv, NEW c \in Clients, Down(c)
    PROVE  ClientIInv'
<1>1. Sane(c, [cl[c] EXCEPT !.shut = "down"])
  BY ClientFields, WindsDown DEF Down
<1> QED
  BY <1>1, BecomeKeeps DEF Down, ClientIInv

LEMMA RegisterKeeps ==
    ASSUME ClientIInv, NEW m \in msgs, msgs' = msgs \ {m}, Register(m)
    PROVE  ClientIInv'
<1> DEFINE c == m.from
           x == cl[c]
           new == [x EXCEPT !.ini = "load", !.reg = m.to]
<1>1. c \in Clients /\ m.to = NameOf[c] /\ m.to \in Services
  BY SdkClientAssumption DEF Register, ClientIInv, Addressed
<1>2. registry' \in [Services -> {"none", "online", "offline"}]
  BY DEF Register, ClientIInv
<1>3. CASE x.ini = "register" /\ Become(c, new)
  <2>1. x \in Client /\ Sane(c, x) /\ Stopped(x)
    BY <1>1, ClientFields
  <2>2. /\ new \in Client /\ new.reg = m.to /\ new.db = x.db /\ new.orderly = x.orderly
    BY <1>1, <2>1 DEF Client
  <2>3. ~x.orderly
    BY <1>3, <2>1 DEF Stopped
  <2> HIDE DEF new
  <2>4. Sane(c, new)
    BY <1>1, <2>1, <2>2, <2>3, Zenon DEF Sane, Stopped
  <2> QED
    BY <1>1, <1>2, <1>3, <2>4, BecomeKeeps
<1>4. CASE UNCHANGED cl
  BY <1>2, <1>4 DEF ClientIInv
<1> QED
  BY <1>3, <1>4 DEF Register

LEMMA DeregisterKeeps ==
    ASSUME ClientIInv, NEW m \in msgs, msgs' = msgs \ {m}, Deregister(m)
    PROVE  ClientIInv'
<1>1. m.from \in Clients /\ m.to \in Services
  BY SdkClientAssumption DEF Deregister, ClientIInv, Addressed
<1>2. registry' \in [Services -> {"none", "online", "offline"}]
  BY <1>1 DEF Deregister, ClientIInv
<1>3. CASE cl[m.from].shut = "deregister" /\ Become(m.from, [cl[m.from] EXCEPT !.shut = "settle"])
  <2>1. Sane(m.from, [cl[m.from] EXCEPT !.shut = "settle"])
    BY <1>1, <1>3, ClientFields, WindsDown
  <2> QED
    BY <1>1, <1>2, <1>3, <2>1, BecomeKeeps
<1>4. CASE UNCHANGED cl
  BY <1>2, <1>4 DEF ClientIInv
<1> QED
  BY <1>3, <1>4 DEF Deregister

LEMMA HeartbeatKeeps ==
    ASSUME ClientIInv, NEW m \in msgs, msgs' = msgs \ {m}, Heartbeat(m)
    PROVE  ClientIInv'
BY DEF Heartbeat, ClientIInv

LEMMA ClientStep ==
    ASSUME ClientIInv, [ClientNext]_clientVars
    PROVE  ClientIInv'
<1>1. CASE UNCHANGED clientVars
  BY <1>1 DEF clientVars, ClientIInv
<1>2. ASSUME NEW m \in msgs, Handle(m) PROVE ClientIInv'
  <2>1. msgs' = msgs \ {m}
    BY <1>2 DEF Handle
  <2>2. Register(m) => ClientIInv'
    BY <2>1, RegisterKeeps
  <2>3. Deregister(m) => ClientIInv'
    BY <2>1, DeregisterKeeps
  <2>4. Heartbeat(m) => ClientIInv'
    BY <2>1, HeartbeatKeeps
  <2> QED
    BY <1>2, <2>2, <2>3, <2>4 DEF Handle
<1>3. ASSUME NEW c \in Clients,
             \/ Begin(c) \/ Unregistered(c) \/ Loaded(c) \/ Connect(c)
             \/ Connected(c) \/ Refused(c) \/ Reconnect(c) \/ Redial(c) \/ Ended(c)
             \/ Beat(c) \/ Shutdown(c) \/ Undelivered(c) \/ Down(c)
      PROVE  ClientIInv'
  <2>1. Begin(c) => ClientIInv'
    BY BeginKeeps
  <2>2. Unregistered(c) => ClientIInv'
    BY UnregisteredKeeps
  <2>3. Loaded(c) => ClientIInv'
    BY LoadedKeeps
  <2>4. Connect(c) => ClientIInv'
    BY ConnectKeeps
  <2>5. Connected(c) => ClientIInv'
    BY ConnectedKeeps
  <2>6. Refused(c) => ClientIInv'
    BY RefusedKeeps
  <2>7. Reconnect(c) => ClientIInv'
    BY ReconnectKeeps
  <2>8. Ended(c) => ClientIInv'
    BY EndedKeeps
  <2>9. Beat(c) => ClientIInv'
    BY BeatKeeps
  <2>10. Shutdown(c) => ClientIInv'
    BY ShutdownKeeps
  <2>11. Undelivered(c) => ClientIInv'
    BY UndeliveredKeeps
  <2>12. Down(c) => ClientIInv'
    BY DownKeeps
  <2>13. Redial(c) => ClientIInv'
    BY RedialKeeps
  <2> QED
    BY <1>3, <2>1, <2>2, <2>3, <2>4, <2>5, <2>6, <2>7, <2>8, <2>9, <2>10, <2>11, <2>12, <2>13
<1> QED
  BY <1>1, <1>2, <1>3 DEF ClientNext

-----------------------------------------------------------------------------
(* The buffers of the SDK *)

Flushes == [batch : Seq(Entries) \ {<<>>}, waited : BOOLEAN]
LateFor(ps, e) == {p \in ps : ~p.waited /\ e \in ToSet(p.batch)}
WaitedFor(ps, e) == {p \in ps : p.waited /\ e \in ToSet(p.batch)}

\* An entry of the client's is in the buffer or in one request whose answer it awaits.
OneHome ==
    \A e \in Entries :
        /\ e \in ToSet(buffer) => WaitedFor(posts, e) = {}
        /\ \A p, q \in WaitedFor(posts, e) : p = q

\* An entry that may still be stored, by a request that was given up or by one to come.
AtHand(e) == e \in ToSet(buffer) \/ WaitedFor(posts, e) # {}
Budget(e) == stored[e] + Cardinality(LateFor(posts, e)) + (IF AtHand(e) THEN 1 ELSE 0) <= 1 + faults

\* Of an entry that is to come there is nothing.
Fresh(e) == stored[e] = 0 /\ e \notin ToSet(buffer) /\ \A p \in posts : e \notin ToSet(p.batch)

BufferIInv ==
    /\ BufferTypeOK /\ posts \subseteq Flushes /\ IsFiniteSet(posts)
    /\ OneHome /\ (\A e \in Entries : Budget(e)) /\ (\A e \in Entries : e > made => Fresh(e))
    /\ LogsKept /\ ("flushed" \in answered => configured) /\ MetricsBounded

LEMMA LateForFinite ==
    ASSUME BufferIInv, NEW e
    PROVE  IsFiniteSet(LateFor(posts, e)) /\ Cardinality(LateFor(posts, e)) \in Nat
<1>1. LateFor(posts, e) \subseteq posts /\ IsFiniteSet(posts)
  BY DEF LateFor, BufferIInv
<1> QED
  BY <1>1, FS_Subset, FS_CardinalityType

LEMMA BufferSound == BufferIInv => BufferInv
<1> SUFFICES ASSUME BufferIInv PROVE BufferInv
  OBVIOUS
<1>1. ASSUME NEW e \in Entries PROVE stored[e] <= 1 + faults
  <2>1. Budget(e) /\ stored[e] \in Nat /\ faults \in Nat /\ Cardinality(LateFor(posts, e)) \in Nat
    BY LateForFinite DEF BufferIInv, BufferTypeOK
  <2> QED
    BY <2>1 DEF Budget
<1> QED
  BY <1>1 DEF BufferInv, BufferIInv, StoredOnce

LEMMA BufferInitIInv == BufferInit => BufferIInv
<1> SUFFICES ASSUME BufferInit PROVE BufferIInv
  OBVIOUS
<1>1. /\ buffer = <<>> /\ posts = {} /\ stored = [e \in Entries |-> 0] /\ made = 0 /\ faults = 0
      /\ kept = {} /\ answered = {} /\ ToSet(buffer) = {}
  BY DEF BufferInit, ToSet
<1>2. BufferTypeOK
  <2>0. 0 \in 0 .. MaxEntries /\ 0 \in 0 .. MaxFaults
    BY SdkBuffersAssumption
  <2>1. kind \in {"logs", "metrics"} /\ configured \in BOOLEAN /\ ticking \in BOOLEAN
    BY DEF BufferInit
  <2>2. buffer \in Seq(Entries) /\ stored \in [Entries -> Nat]
    BY <1>1
  <2> QED
    BY <1>1, <2>0, <2>1, <2>2 DEF BufferTypeOK
<1>3. \A e \in Entries : LateFor(posts, e) = {} /\ WaitedFor(posts, e) = {}
  BY <1>1 DEF LateFor, WaitedFor
<1>4. IsFiniteSet(posts) /\ Cardinality({}) = 0
  BY <1>1, FS_EmptySet
<1>5. OneHome
  BY <1>3 DEF OneHome
<1>6. \A e \in Entries : ~AtHand(e)
  BY <1>1, <1>3 DEF AtHand
<1>7. \A e \in Entries : Budget(e)
  <2>1. \A e \in Entries : stored[e] = 0 /\ Cardinality(LateFor(posts, e)) = 0
    BY <1>1, <1>3, <1>4
  <2> QED
    BY <1>1, <1>6, <2>1 DEF Budget
<1>8. \A e \in Entries : Fresh(e)
  BY <1>1 DEF Fresh
<1>9. LogsKept /\ MetricsBounded
  BY <1>1 DEF LogsKept, MetricsBounded
<1> QED
  BY <1>1, <1>2, <1>4, <1>5, <1>7, <1>8, <1>9 DEF BufferIInv

LEMMA ToSetOf ==
    ASSUME NEW S, NEW s \in Seq(S), NEW t \in Seq(S)
    PROVE  /\ ToSet(s) \subseteq S
           /\ ToSet(s \o t) = ToSet(s) \cup ToSet(t)
           /\ \A x \in S : ToSet(Append(s, x)) = ToSet(s) \cup {x}
<1>1. ToSet(s) \subseteq S
  BY DEF ToSet
<1>2. /\ Len(s \o t) = Len(s) + Len(t) /\ DOMAIN (s \o t) = 1 .. Len(s) + Len(t)
      /\ \A i \in 1 .. Len(s) : (s \o t)[i] = s[i]
      /\ \A i \in 1 .. Len(t) : (s \o t)[Len(s) + i] = t[i]
      /\ DOMAIN s = 1 .. Len(s) /\ DOMAIN t = 1 .. Len(t) /\ Len(s) \in Nat /\ Len(t) \in Nat
  OBVIOUS
<1>3. ASSUME NEW y \in ToSet(s \o t) PROVE y \in ToSet(s) \cup ToSet(t)
  <2>1. PICK i \in 1 .. Len(s) + Len(t) : y = (s \o t)[i]
    BY <1>2 DEF ToSet
  <2>2. CASE i <= Len(s)
    BY <1>2, <2>1, <2>2 DEF ToSet
  <2>3. CASE i > Len(s)
    <3>1. i - Len(s) \in 1 .. Len(t) /\ i = Len(s) + (i - Len(s))
      BY <1>2, <2>3
    <3>2. y = t[i - Len(s)]
      BY <1>2, <2>1, <3>1
    <3> QED
      BY <1>2, <3>1, <3>2 DEF ToSet
  <2> QED
    BY <1>2, <2>2, <2>3
<1>4. ASSUME NEW y \in ToSet(s) PROVE y \in ToSet(s \o t)
  <2>1. PICK i \in 1 .. Len(s) : y = s[i]
    BY <1>2 DEF ToSet
  <2>2. i \in DOMAIN (s \o t) /\ (s \o t)[i] = y
    BY <1>2, <2>1
  <2> QED
    BY <2>2 DEF ToSet
<1>5. ASSUME NEW y \in ToSet(t) PROVE y \in ToSet(s \o t)
  <2>1. PICK i \in 1 .. Len(t) : y = t[i]
    BY <1>2 DEF ToSet
  <2>2. Len(s) + i \in DOMAIN (s \o t) /\ (s \o t)[Len(s) + i] = y
    BY <1>2, <2>1
  <2> QED
    BY <2>2 DEF ToSet
<1>6. ASSUME NEW x \in S PROVE ToSet(Append(s, x)) = ToSet(s) \cup {x}
  <2>1. /\ DOMAIN Append(s, x) = 1 .. Len(s) + 1 /\ Append(s, x)[Len(s) + 1] = x
        /\ \A i \in 1 .. Len(s) : Append(s, x)[i] = s[i]
    OBVIOUS
  <2> QED
    BY <1>2, <2>1 DEF ToSet
<1> QED
  BY <1>1, <1>3, <1>4, <1>5, <1>6

\* What is there, but for the entries made since, is sent or stays.
LEMMA PostKeeps ==
    ASSUME BufferIInv, NEW content \in Seq(Entries), NEW new \in SUBSET Entries,
           new = {} \/ new = {made + 1}, made' \in made .. MaxEntries, new = {made + 1} => made' = made + 1,
           ToSet(content) = ToSet(buffer) \cup new, kept' = kept \cup new,
           \/ Post(content)
           \/ Len(content) < Full[kind] /\ buffer' = content /\ UNCHANGED <<posts, answered>>,
           ticking' \in BOOLEAN, UNCHANGED <<kind, configured, stored, faults>>
    PROVE  BufferIInv'
<1> DEFINE w == [batch |-> content, waited |-> TRUE]
<1>1. /\ buffer \in Seq(Entries) /\ posts \subseteq Flushes /\ IsFiniteSet(posts)
      /\ kept \subseteq Entries /\ answered \subseteq {"flushed", "refused"} /\ stored \in [Entries -> Nat]
      /\ made \in 0 .. MaxEntries /\ faults \in Nat /\ configured \in BOOLEAN
  BY DEF BufferIInv, BufferTypeOK
<1>2. \/ /\ configured /\ content # <<>> /\ posts' = posts \cup {w}
         /\ buffer' = <<>> /\ answered' = answered \cup {"flushed"}
      \/ /\ posts' = posts /\ buffer' = content /\ answered' = answered
         /\ ~configured \/ content = <<>> \/ Len(content) < Full[kind]
  BY DEF Post
<1>3. w.waited = TRUE /\ w.batch = content
  OBVIOUS
<1>4. content # <<>> => w \in Flushes
  BY DEF Flushes
<1> HIDE DEF w
<1>5. posts' \subseteq Flushes /\ IsFiniteSet(posts')
  <2>1. CASE posts' = posts \cup {w} /\ content # <<>>
    BY <1>1, <1>4, <2>1, FS_AddElement
  <2>2. CASE posts' = posts
    BY <1>1, <2>2
  <2> QED
    BY <1>2, <2>1, <2>2
<1>6. ToSet(<<>>) = {} /\ <<>> \in Seq(Entries)
  BY DEF ToSet
<1>7. \A e \in Entries : LateFor(posts', e) = LateFor(posts, e)
  BY <1>2, <1>3 DEF LateFor
<1>8. ASSUME NEW e \in Entries
      PROVE  /\ e \in new => Fresh(e)
             /\ Fresh(e) /\ e \notin new => Fresh(e)'
  <2>1. e \in new => Fresh(e)
    <3>1. e \in new => e > made
      BY <1>1
    <3> QED
      BY <3>1 DEF BufferIInv
  <2>2. ASSUME Fresh(e), e \notin new PROVE Fresh(e)'
    <3>1. e \notin ToSet(content)
      BY <2>2 DEF Fresh
    <3>2. e \notin ToSet(buffer')
      BY <1>2, <1>6, <3>1
    <3>3. ASSUME NEW p \in posts' PROVE e \notin ToSet(p.batch)
      BY <1>2, <1>3, <2>2, <3>1 DEF Fresh
    <3>4. stored'[e] = 0
      BY <2>2 DEF Fresh
    <3> QED
      BY <3>2, <3>3, <3>4 DEF Fresh
  <2> QED
    BY <2>1, <2>2
<1>9. ASSUME NEW e \in Entries
      PROVE  /\ e \in ToSet(buffer') => WaitedFor(posts', e) = {} /\ e \in ToSet(content)
             /\ \A p, q \in WaitedFor(posts', e) : p = q
             /\ AtHand(e)' <=> AtHand(e) \/ e \in new
  <2>1. e \in ToSet(content) => WaitedFor(posts, e) = {}
    <3>1. Fresh(e) => WaitedFor(posts, e) = {}
      BY DEF Fresh, WaitedFor
    <3> QED
      BY <1>8, <3>1 DEF BufferIInv, OneHome
  <2>2. CASE /\ posts' = posts \cup {w} /\ buffer' = <<>>
    <3>1. WaitedFor(posts', e) = IF e \in ToSet(content) THEN WaitedFor(posts, e) \cup {w} ELSE WaitedFor(posts, e)
      BY <1>3, <2>2 DEF WaitedFor
    <3>2. e \notin ToSet(buffer')
      BY <1>6, <2>2
    <3>3. \A p, q \in WaitedFor(posts, e) : p = q
      BY DEF BufferIInv, OneHome
    <3>4. \A p, q \in WaitedFor(posts', e) : p = q
      BY <2>1, <3>1, <3>3
    <3>5. AtHand(e)' <=> AtHand(e) \/ e \in new
      BY <3>1, <3>2 DEF AtHand
    <3> QED
      BY <3>2, <3>4, <3>5
  <2>3. CASE posts' = posts /\ buffer' = content
    <3>1. WaitedFor(posts', e) = WaitedFor(posts, e)
      BY <2>3
    <3>2. \A p, q \in WaitedFor(posts, e) : p = q
      BY DEF BufferIInv, OneHome
    <3> QED
      BY <2>1, <2>3, <3>1, <3>2 DEF AtHand
  <2> QED
    BY <1>2, <2>2, <2>3
<1>10. OneHome'
  BY <1>9 DEF OneHome
<1>11. ASSUME NEW e \in Entries PROVE Budget(e)'
  <2>1. stored'[e] = stored[e] /\ LateFor(posts', e) = LateFor(posts, e) /\ faults' = faults
    BY <1>7
  <2>2. CASE e \in new
    <3>1. Fresh(e)
      BY <1>8, <2>2
    <3>2. LateFor(posts, e) = {} /\ Cardinality({}) = 0 /\ stored[e] = 0
      BY <3>1, FS_EmptySet DEF Fresh, LateFor
    <3> QED
      <4>1. stored'[e] = 0 /\ Cardinality(LateFor(posts', e)) = 0 /\ faults' \in Nat
        BY <1>1, <2>1, <3>2
      <4> QED
        BY <4>1 DEF Budget
  <2>3. CASE e \notin new
    <3>1. AtHand(e)' <=> AtHand(e)
      BY <1>9, <2>3
    <3>2. Budget(e)
      BY DEF BufferIInv
    <3> QED
      BY <2>1, <3>1, <3>2 DEF Budget
  <2> QED
    BY <2>2, <2>3
<1>12. ASSUME NEW e \in Entries, e > made' PROVE Fresh(e)'
  <2>0. made \in Nat /\ made' \in Nat /\ e \in Nat /\ made <= made'
    BY <1>1, SdkBuffersAssumption DEF Entries
  <2>1. e > made /\ e \notin new
    BY <1>12, <2>0
  <2> QED
    BY <1>8, <2>1 DEF BufferIInv
<1>13. ASSUME kind' = "logs", NEW l \in kept'
       PROVE  \/ l \in ToSet(buffer') \/ stored'[l] > 0
              \/ \E p \in posts' : p.waited /\ l \in ToSet(p.batch)
  <2>1. CASE l \in ToSet(content)
    BY <1>2, <1>3, <2>1
  <2>2. CASE l \notin ToSet(content)
    <3>1. l \in kept /\ l \notin ToSet(buffer) /\ kind = "logs"
      BY <1>13, <2>2
    <3>2. stored[l] > 0 \/ \E p \in posts : p.waited /\ l \in ToSet(p.batch)
      BY <3>1 DEF BufferIInv, LogsKept
    <3> QED
      BY <1>2, <3>2
  <2> QED
    BY <2>1, <2>2
<1>14. LogsKept'
  BY <1>13 DEF LogsKept
<1>15. "flushed" \in answered' => configured'
  BY <1>2 DEF BufferIInv
<1>16. ASSUME kind' = "metrics", "flushed" \in answered'
       PROVE  Len(buffer') < MetricMax + MetricKept \/ Len(buffer') < Full.metrics
  <2>1. CASE buffer' = <<>>
    BY <2>1, SdkBuffersAssumption
  <2>2. CASE content # <<>> /\ buffer' = content /\ answered' = answered /\ ~configured
    BY <1>16, <2>2 DEF BufferIInv
  <2>3. CASE content # <<>> /\ buffer' = content /\ Len(content) < Full[kind]
    <3>1. Full[kind] = Full.metrics
      BY <1>16
    <3> QED
      BY <2>3, <3>1
  <2> QED
    BY <1>2, <2>1, <2>2, <2>3
<1>17. MetricsBounded'
  BY <1>16 DEF MetricsBounded
<1>18. BufferTypeOK'
  <2>1. buffer' \in Seq(Entries)
    BY <1>2, <1>6
  <2>2. \A p \in posts' : p.batch \in Seq(Entries) \ {<<>>} /\ p.waited \in BOOLEAN
    BY <1>5 DEF Flushes
  <2>3. kept' \subseteq Entries /\ answered' \subseteq {"flushed", "refused"}
    BY <1>1, <1>2
  <2>4. made' \in 0 .. MaxEntries
    BY <1>1, SdkBuffersAssumption
  <2> QED
    BY <2>1, <2>2, <2>3, <2>4 DEF BufferTypeOK, BufferIInv
<1> QED
  BY <1>5, <1>10, <1>11, <1>12, <1>14, <1>15, <1>17, <1>18 DEF BufferIInv

LEMMA ConfigureKeeps == BufferIInv /\ Configure => BufferIInv'
<1> SUFFICES ASSUME BufferIInv, Configure PROVE BufferIInv'
  OBVIOUS
<1>1. UNCHANGED <<kind, ticking, buffer, posts, stored, made, faults, kept, answered>> /\ configured' = TRUE
  BY DEF Configure
<1>2. BufferTypeOK'
  BY <1>1 DEF BufferIInv, BufferTypeOK
<1>3. OneHome' /\ (\A e \in Entries : Budget(e)') /\ \A e \in Entries : e > made' => Fresh(e)'
  BY <1>1 DEF BufferIInv, OneHome, Budget, Fresh, AtHand
<1>4. LogsKept' /\ MetricsBounded'
  BY <1>1 DEF BufferIInv, LogsKept, MetricsBounded
<1> QED
  BY <1>1, <1>2, <1>3, <1>4 DEF BufferIInv

LEMMA AddKeeps == BufferIInv /\ Add => BufferIInv'
<1> SUFFICES ASSUME BufferIInv, Add PROVE BufferIInv'
  OBVIOUS
<1> DEFINE content == Append(buffer, made + 1)
<1>1. buffer \in Seq(Entries) /\ made \in 0 .. MaxEntries /\ ticking \in BOOLEAN
  BY DEF BufferIInv, BufferTypeOK
<1>2. made + 1 \in Entries /\ made' = made + 1 /\ made' \in made .. MaxEntries
  BY <1>1, SdkBuffersAssumption DEF Add, Entries
<1>3. content \in Seq(Entries) /\ ToSet(content) = ToSet(buffer) \cup {made + 1}
  BY <1>1, <1>2, ToSetOf
<1>4. Len(content) \in Nat /\ Full[kind] \in Nat
  <2>1. kind \in {"logs", "metrics"}
    BY DEF BufferIInv, BufferTypeOK
  <2> QED
    BY <1>3, <2>1, SdkBuffersAssumption
<1>5. \/ Post(content)
      \/ Len(content) < Full[kind] /\ buffer' = content /\ UNCHANGED <<posts, answered>>
  BY <1>4 DEF Add
<1>6. kept' = kept \cup {made + 1} /\ ticking' \in BOOLEAN /\ UNCHANGED <<kind, configured, stored, faults>>
  BY <1>1 DEF Add
<1> DEFINE new == {made + 1}
<1>7. /\ new \in SUBSET Entries /\ new = {made + 1} /\ ToSet(content) = ToSet(buffer) \cup new
      /\ kept' = kept \cup new
  BY <1>2, <1>3, <1>6
<1> HIDE DEF content, new
<1> QED
  BY <1>2, <1>3, <1>5, <1>6, <1>7, PostKeeps

\* The timer and stop send what is there.
LEMMA FlushKeeps ==
    ASSUME BufferIInv, Post(buffer), ticking' \in BOOLEAN,
           UNCHANGED <<kind, configured, stored, made, faults, kept>>
    PROVE  BufferIInv'
<1>1. buffer \in Seq(Entries) /\ made' \in made .. MaxEntries
  BY SdkBuffersAssumption DEF BufferIInv, BufferTypeOK
<1>2. ToSet(buffer) = ToSet(buffer) \cup {} /\ kept' = kept \cup {} /\ {} \in SUBSET Entries
  OBVIOUS
<1>3. \A new : new = {} => new # {made + 1}
  OBVIOUS
<1> QED
  BY <1>1, <1>2, <1>3, PostKeeps

LEMMA IntervalKeeps == BufferIInv /\ Interval => BufferIInv'
BY FlushKeeps DEF Interval, BufferIInv, BufferTypeOK

LEMMA StopKeeps == BufferIInv /\ Stop => BufferIInv'
<1> SUFFICES ASSUME BufferIInv, Stop PROVE BufferIInv'
  OBVIOUS
<1>1. ticking' \in BOOLEAN
  BY DEF Stop
<1> QED
  BY <1>1, FlushKeeps DEF Stop

\* What the catch of a flush puts back.
LEMMA RequeueFacts ==
    ASSUME BufferIInv, NEW batch \in Seq(Entries), Requeue(batch)
    PROVE  /\ buffer' \in Seq(Entries)
           /\ ToSet(buffer) \subseteq ToSet(buffer') /\ ToSet(buffer') \subseteq ToSet(buffer) \cup ToSet(batch)
           /\ kind = "logs" => ToSet(batch) \subseteq ToSet(buffer')
           /\ kind = "metrics" => buffer' = buffer \/ Len(buffer') < MetricMax + MetricKept
<1>1. buffer \in Seq(Entries) /\ kind \in {"logs", "metrics"} /\ Len(buffer) \in Nat /\ Len(batch) \in Nat
  BY DEF BufferIInv, BufferTypeOK
<1>2. /\ MetricMax \in Nat /\ MetricKept \in Nat /\ MetricKept > 0
  BY SdkBuffersAssumption
<1>3. CASE kind = "logs"
  <2>1. buffer' = batch \o buffer
    BY <1>3 DEF Requeue
  <2>2. ToSet(batch \o buffer) = ToSet(batch) \cup ToSet(buffer)
    BY <1>1, ToSetOf
  <2> QED
    BY <1>1, <1>3, <2>1, <2>2
<1>4. CASE kind = "metrics" /\ Len(buffer) >= MetricMax
  <2>1. buffer' = <<>> \o buffer
    BY <1>1, <1>2, <1>4 DEF Requeue
  <2>2. buffer' = buffer
    BY <1>1, <2>1
  <2> QED
    BY <1>1, <1>4, <2>2
<1>5. CASE kind = "metrics" /\ Len(buffer) < MetricMax
  <2> DEFINE n == IF Len(batch) < MetricKept THEN Len(batch) ELSE MetricKept
             front == SubSeq(batch, 1, n)
  <2>1. buffer' = front \o buffer
    BY <1>1, <1>2, <1>5 DEF Requeue
  <2>2. n \in 0 .. Len(batch) /\ n <= MetricKept
    BY <1>1, <1>2
  <2> HIDE DEF n
  <2>3. front \in Seq(Entries) /\ Len(front) = n /\ \A i \in 1 .. n : front[i] = batch[i]
    BY <1>1, <2>2
  <2> HIDE DEF front
  <2>4. ToSet(front) \subseteq ToSet(batch)
    BY <1>1, <2>2, <2>3 DEF ToSet
  <2>5. ToSet(front \o buffer) = ToSet(front) \cup ToSet(buffer)
    BY <1>1, <2>3, ToSetOf
  <2>6. front \o buffer \in Seq(Entries) /\ Len(front \o buffer) = n + Len(buffer)
    <3>1. buffer \in Seq(Entries)
      BY <1>1
    <3> QED
      BY <2>3, <3>1, ConcatProperties
  <2>7. Len(buffer') < MetricMax + MetricKept
    BY <1>1, <1>2, <1>5, <2>1, <2>2, <2>6
  <2> QED
    BY <1>5, <2>1, <2>4, <2>5, <2>6, <2>7
<1> QED
  BY <1>1, <1>2, <1>3, <1>4, <1>5

\* What is left of the requests when one of them is answered or given up.
LEMMA WithoutWaited ==
    ASSUME BufferIInv, NEW p \in posts, p.waited, NEW e \in Entries
    PROVE  /\ LateFor(posts \ {p}, e) = LateFor(posts, e)
           /\ e \in ToSet(p.batch) => WaitedFor(posts \ {p}, e) = {} /\ e \notin ToSet(buffer) /\ AtHand(e)
           /\ e \notin ToSet(p.batch) => WaitedFor(posts \ {p}, e) = WaitedFor(posts, e)
           /\ WaitedFor(posts \ {p}, e) \subseteq WaitedFor(posts, e)
<1>1. LateFor(posts \ {p}, e) = LateFor(posts, e)
  BY DEF LateFor
<1>2. ASSUME e \in ToSet(p.batch)
      PROVE  WaitedFor(posts \ {p}, e) = {} /\ e \notin ToSet(buffer) /\ AtHand(e)
  <2>1. p \in WaitedFor(posts, e)
    BY <1>2 DEF WaitedFor
  <2>2. e \notin ToSet(buffer) /\ \A q \in WaitedFor(posts, e) : q = p
    BY <2>1 DEF BufferIInv, OneHome
  <2>3. WaitedFor(posts \ {p}, e) = {}
    BY <2>2 DEF WaitedFor
  <2> QED
    BY <2>1, <2>2, <2>3 DEF AtHand
<1>3. e \notin ToSet(p.batch) => WaitedFor(posts \ {p}, e) = WaitedFor(posts, e)
  BY DEF WaitedFor
<1>4. WaitedFor(posts \ {p}, e) \subseteq WaitedFor(posts, e)
  BY DEF WaitedFor
<1> QED
  BY <1>1, <1>2, <1>3, <1>4

LEMMA WithoutLate ==
    ASSUME BufferIInv, NEW p \in posts, ~p.waited, NEW e \in Entries
    PROVE  /\ WaitedFor(posts \ {p}, e) = WaitedFor(posts, e)
           /\ e \notin ToSet(p.batch) => LateFor(posts \ {p}, e) = LateFor(posts, e)
           /\ e \in ToSet(p.batch) =>
                 Cardinality(LateFor(posts \ {p}, e)) = Cardinality(LateFor(posts, e)) - 1
<1>1. WaitedFor(posts \ {p}, e) = WaitedFor(posts, e)
  BY DEF WaitedFor
<1>2. e \notin ToSet(p.batch) => LateFor(posts \ {p}, e) = LateFor(posts, e)
  BY DEF LateFor
<1>3. ASSUME e \in ToSet(p.batch)
      PROVE  Cardinality(LateFor(posts \ {p}, e)) = Cardinality(LateFor(posts, e)) - 1
  <2>1. p \in LateFor(posts, e) /\ LateFor(posts \ {p}, e) = LateFor(posts, e) \ {p}
    BY <1>3 DEF LateFor
  <2> QED
    BY <2>1, LateForFinite, FS_RemoveElement
<1> QED
  BY <1>1, <1>2, <1>3

\* What a request, answered or not, must leave.
LEMMA AnsweredKeeps ==
    ASSUME BufferIInv, UNCHANGED <<kind, configured, ticking, made, kept>>,
           buffer' \in Seq(Entries), posts' \subseteq Flushes, IsFiniteSet(posts'),
           stored' \in [Entries -> Nat], faults' \in 0 .. MaxFaults,
           answered' \subseteq answered \cup {"refused"},
           OneHome', \A e \in Entries : Budget(e)', \A e \in Entries : Fresh(e) => Fresh(e)',
           LogsKept', kind = "metrics" => buffer' = buffer \/ Len(buffer') < MetricMax + MetricKept
    PROVE  BufferIInv'
<1>1. answered \subseteq {"flushed", "refused"}
  BY DEF BufferIInv, BufferTypeOK
<1>2. answered' \subseteq {"flushed", "refused"} /\ ("flushed" \in answered' => "flushed" \in answered)
  BY <1>1
<1>3. \A q \in posts' : q.batch \in Seq(Entries) \ {<<>>} /\ q.waited \in BOOLEAN
  BY DEF Flushes
<1>4. BufferTypeOK'
  BY <1>2, <1>3 DEF BufferTypeOK, BufferIInv
<1>5. \A e \in Entries : e > made' => Fresh(e)'
  BY DEF BufferIInv
<1>6. MetricsBounded'
  BY <1>2 DEF MetricsBounded, BufferIInv
<1>7. "flushed" \in answered' => configured'
  BY <1>2 DEF BufferIInv
<1> QED
  BY <1>4, <1>5, <1>6, <1>7 DEF BufferIInv

\* A batch is stored.
LEMMA InsertFacts ==
    ASSUME BufferIInv, NEW batch, Insert(batch)
    PROVE  /\ stored' \in [Entries -> Nat]
           /\ \A e \in Entries : stored'[e] = stored[e] + (IF e \in ToSet(batch) THEN 1 ELSE 0)
<1>1. stored \in [Entries -> Nat]
  BY DEF BufferIInv, BufferTypeOK
<1> QED
  BY <1>1 DEF Insert

LEMMA ServeKeeps ==
    ASSUME BufferIInv, NEW p \in posts, Serve(p)
    PROVE  BufferIInv'
<1> DEFINE n(e) == Cardinality(LateFor(posts, e))
           m(e) == Cardinality(LateFor(posts \ {p}, e))
<1>1. /\ p \in Flushes /\ p.batch \in Seq(Entries) /\ p.waited \in BOOLEAN /\ posts' = posts \ {p}
      /\ UNCHANGED <<kind, configured, ticking, made, faults, kept>>
      /\ buffer \in Seq(Entries) /\ stored \in [Entries -> Nat] /\ faults \in 0 .. MaxFaults
  BY DEF Serve, BufferIInv, BufferTypeOK, Flushes
<1>2. posts' \subseteq Flushes /\ IsFiniteSet(posts')
  BY <1>1, FS_RemoveElement DEF BufferIInv
<1>3. \A e \in Entries : n(e) \in Nat /\ Budget(e) /\ OneHome
  BY LateForFinite DEF BufferIInv
<1>4. ASSUME NEW e \in Entries
      PROVE  /\ p.waited => m(e) = n(e)
             /\ ~p.waited /\ e \in ToSet(p.batch) => m(e) = n(e) - 1
             /\ e \notin ToSet(p.batch) => m(e) = n(e)
             /\ WaitedFor(posts \ {p}, e) \subseteq WaitedFor(posts, e)
             /\ e \notin ToSet(p.batch) => WaitedFor(posts \ {p}, e) = WaitedFor(posts, e)
             /\ e \in ToSet(p.batch) /\ p.waited =>
                   WaitedFor(posts \ {p}, e) = {} /\ e \notin ToSet(buffer) /\ AtHand(e)
             /\ ~p.waited => WaitedFor(posts \ {p}, e) = WaitedFor(posts, e)
  <2>1. CASE p.waited
    BY <2>1, WithoutWaited
  <2>2. CASE ~p.waited
    BY <2>2, WithoutLate
  <2> QED
    BY <2>1, <2>2
<1> HIDE DEF n, m
<1>5. CASE Accepts(p.batch)
  <2>1. Insert(p.batch) /\ UNCHANGED <<buffer, answered>>
    BY <1>5 DEF Serve
  <2>2. /\ stored' \in [Entries -> Nat]
        /\ \A e \in Entries : stored'[e] = stored[e] + (IF e \in ToSet(p.batch) THEN 1 ELSE 0)
    BY <2>1, InsertFacts
  <2>3. OneHome'
    BY <1>1, <1>4, <2>1 DEF BufferIInv, OneHome
  <2>4. ASSUME NEW e \in Entries PROVE Budget(e)'
    <3>1. CASE e \notin ToSet(p.batch)
      <4>1. stored'[e] = stored[e] /\ m(e) = n(e)
        BY <1>1, <1>4, <2>2, <3>1
      <4>2. AtHand(e)' <=> AtHand(e)
        BY <1>1, <1>4, <2>1, <3>1 DEF AtHand
      <4> QED
        BY <1>1, <1>3, <4>1, <4>2 DEF Budget, n, m
    <3>2. CASE e \in ToSet(p.batch) /\ p.waited
      <4>1. stored'[e] = stored[e] + 1 /\ m(e) = n(e)
        BY <1>1, <1>4, <2>2, <3>2
      <4>2. AtHand(e) /\ ~AtHand(e)'
        BY <1>1, <1>4, <2>1, <3>2 DEF AtHand
      <4> QED
        BY <1>1, <1>3, <4>1, <4>2 DEF Budget, n, m
    <3>3. CASE e \in ToSet(p.batch) /\ ~p.waited
      <4>1. stored'[e] = stored[e] + 1 /\ m(e) = n(e) - 1
        BY <1>1, <1>4, <2>2, <3>3
      <4>2. AtHand(e)' <=> AtHand(e)
        BY <1>1, <1>4, <2>1, <3>3 DEF AtHand
      <4> QED
        BY <1>1, <1>3, <4>1, <4>2 DEF Budget, n, m
    <3> QED
      BY <3>1, <3>2, <3>3
  <2>5. ASSUME NEW e \in Entries, Fresh(e) PROVE Fresh(e)'
    <3>1. e \notin ToSet(p.batch)
      BY <2>5 DEF Fresh
    <3> QED
      BY <1>1, <2>1, <2>2, <2>5, <3>1 DEF Fresh
  <2>6. LogsKept'
    <3> SUFFICES ASSUME kind = "logs", NEW l \in kept
                 PROVE  \/ l \in ToSet(buffer) \/ stored'[l] > 0
                        \/ \E q \in posts \ {p} : q.waited /\ l \in ToSet(q.batch)
      BY <1>1, <2>1 DEF LogsKept
    <3>1. l \in Entries
      BY DEF BufferIInv, BufferTypeOK
    <3>2. \/ l \in ToSet(buffer) \/ stored[l] > 0
          \/ \E q \in posts : q.waited /\ l \in ToSet(q.batch)
      BY DEF BufferIInv, LogsKept
    <3>3. l \in ToSet(p.batch) => stored'[l] > 0
      BY <1>1, <2>2, <3>1
    <3>4. stored[l] > 0 => stored'[l] > 0
      BY <1>1, <2>2, <3>1
    <3> QED
      BY <3>2, <3>3, <3>4
  <2> QED
    BY <1>1, <1>2, <2>1, <2>2, <2>3, <2>4, <2>5, <2>6, AnsweredKeeps
<1>6. CASE ~Accepts(p.batch)
  <2>1. /\ answered' = answered \cup {"refused"} /\ UNCHANGED stored
        /\ IF p.waited THEN Requeue(p.batch) ELSE UNCHANGED buffer
    BY <1>6 DEF Serve
  <2>2. /\ buffer' \in Seq(Entries) /\ ToSet(buffer) \subseteq ToSet(buffer')
        /\ p.waited => ToSet(buffer') \subseteq ToSet(buffer) \cup ToSet(p.batch)
        /\ ~p.waited => buffer' = buffer
        /\ p.waited /\ kind = "logs" => ToSet(p.batch) \subseteq ToSet(buffer')
        /\ kind = "metrics" => buffer' = buffer \/ Len(buffer') < MetricMax + MetricKept
    BY <1>1, <2>1, RequeueFacts
  <2>3. ASSUME NEW e \in Entries
        PROVE  /\ e \in ToSet(buffer') => WaitedFor(posts', e) = {}
               /\ \A q, r \in WaitedFor(posts', e) : q = r
               /\ AtHand(e)' => AtHand(e)
    BY <1>1, <1>4, <2>2 DEF BufferIInv, OneHome, AtHand
  <2>4. OneHome'
    BY <2>3 DEF OneHome
  <2>5. ASSUME NEW e \in Entries PROVE Budget(e)'
    <3>1. stored'[e] = stored[e] /\ m(e) <= n(e) /\ m(e) \in Int /\ (AtHand(e)' => AtHand(e))
      BY <1>1, <1>3, <1>4, <2>1, <2>3
    <3> QED
      BY <1>1, <1>3, <3>1 DEF Budget, n, m
  <2>6. ASSUME NEW e \in Entries, Fresh(e) PROVE Fresh(e)'
    <3>1. e \notin ToSet(p.batch)
      BY <2>6 DEF Fresh
    <3> QED
      BY <1>1, <2>1, <2>2, <2>6, <3>1 DEF Fresh
  <2>7. LogsKept'
    BY <1>1, <2>1, <2>2 DEF BufferIInv, LogsKept
  <2> QED
    BY <1>1, <1>2, <2>1, <2>2, <2>4, <2>5, <2>6, <2>7, AnsweredKeeps
<1> QED
  BY <1>5, <1>6

LEMMA FailKeeps ==
    ASSUME BufferIInv, NEW p \in posts, Fail(p)
    PROVE  BufferIInv'
<1> DEFINE late == [p EXCEPT !.waited = FALSE]
           rest == posts \ {p}
           n(e) == Cardinality(LateFor(posts, e))
           m(e) == Cardinality(LateFor(posts', e))
<1>1. /\ p \in Flushes /\ p.batch \in Seq(Entries) /\ p.waited /\ Requeue(p.batch)
      /\ UNCHANGED <<kind, configured, ticking, made, kept, answered>>
      /\ buffer \in Seq(Entries) /\ stored \in [Entries -> Nat] /\ faults \in 0 .. MaxFaults
      /\ faults' = faults + 1 /\ faults' \in 0 .. MaxFaults
  <2>1. p \in Flushes /\ p.batch \in Seq(Entries)
    BY DEF BufferIInv, Flushes
  <2>2. buffer \in Seq(Entries) /\ stored \in [Entries -> Nat] /\ faults \in 0 .. MaxFaults
    BY DEF BufferIInv, BufferTypeOK
  <2>3. faults' = faults + 1 /\ faults' \in 0 .. MaxFaults
    BY <2>2, SdkBuffersAssumption DEF Fail
  <2> QED
    BY <2>1, <2>2, <2>3 DEF Fail
<1>2. late \in Flushes /\ late.batch = p.batch /\ late.waited = FALSE
  BY <1>1 DEF Flushes
<1>3. \/ posts' = rest /\ UNCHANGED stored
      \/ posts' = rest /\ Insert(p.batch)
      \/ posts' = rest \cup {late} /\ UNCHANGED stored
  BY DEF Fail
<1>4. rest \subseteq Flushes /\ IsFiniteSet(rest)
  BY FS_RemoveElement DEF BufferIInv
<1>5. ASSUME NEW e \in Entries
      PROVE  /\ LateFor(rest, e) = LateFor(posts, e)
             /\ e \in ToSet(p.batch) => WaitedFor(rest, e) = {} /\ e \notin ToSet(buffer) /\ AtHand(e)
             /\ e \notin ToSet(p.batch) => WaitedFor(rest, e) = WaitedFor(posts, e)
             /\ WaitedFor(rest, e) \subseteq WaitedFor(posts, e)
  BY <1>1, WithoutWaited
<1> HIDE DEF late, rest
<1>6. posts' \subseteq Flushes /\ IsFiniteSet(posts')
  <2>1. CASE posts' = rest
    BY <1>4, <2>1
  <2>2. CASE posts' = rest \cup {late}
    BY <1>2, <1>4, <2>2, FS_AddElement
  <2> QED
    BY <1>3, <2>1, <2>2
<1>7. \A e \in Entries : WaitedFor(posts', e) = WaitedFor(rest, e)
  BY <1>2, <1>3 DEF WaitedFor
<1>8. /\ buffer' \in Seq(Entries) /\ ToSet(buffer) \subseteq ToSet(buffer')
      /\ ToSet(buffer') \subseteq ToSet(buffer) \cup ToSet(p.batch)
      /\ kind = "logs" => ToSet(p.batch) \subseteq ToSet(buffer')
      /\ kind = "metrics" => buffer' = buffer \/ Len(buffer') < MetricMax + MetricKept
  BY <1>1, RequeueFacts
<1>9. ASSUME NEW e \in Entries
      PROVE  /\ e \in ToSet(buffer') => WaitedFor(posts', e) = {}
             /\ \A q, r \in WaitedFor(posts', e) : q = r
             /\ AtHand(e)' => AtHand(e)
  <2>1. WaitedFor(posts', e) = WaitedFor(rest, e)
    BY <1>7
  <2>2. /\ e \in ToSet(buffer) => WaitedFor(posts, e) = {}
        /\ \A q, r \in WaitedFor(posts, e) : q = r
    BY DEF BufferIInv, OneHome
  <2> QED
    BY <1>5, <1>8, <2>1, <2>2 DEF AtHand
<1>10. stored' \in [Entries -> Nat] /\ \A e \in Entries : stored[e] > 0 => stored'[e] > 0
  <2>1. CASE UNCHANGED stored
    BY <1>1, <2>1
  <2>2. CASE Insert(p.batch)
    <3>1. /\ stored' \in [Entries -> Nat]
          /\ \A e \in Entries : stored'[e] = stored[e] + (IF e \in ToSet(p.batch) THEN 1 ELSE 0)
      BY <2>2, InsertFacts
    <3>2. \A e \in Entries : stored[e] \in Nat
      BY <1>1
    <3> QED
      BY <3>1, <3>2
  <2> QED
    BY <1>3, <2>1, <2>2
<1>11. ASSUME NEW e \in Entries
       PROVE  /\ n(e) \in Nat /\ m(e) \in Nat /\ stored[e] \in Nat /\ stored'[e] \in Nat
              /\ stored'[e] + m(e) <= stored[e] + n(e) + 1
  <2>1. n(e) \in Nat /\ stored[e] \in Nat /\ stored'[e] \in Nat /\ IsFiniteSet(LateFor(posts, e))
    BY <1>1, <1>10, LateForFinite
  <2>2. CASE posts' = rest /\ UNCHANGED stored
    BY <1>5, <2>1, <2>2
  <2>3. CASE posts' = rest /\ Insert(p.batch)
    <3>1. stored'[e] <= stored[e] + 1
      BY <2>1, <2>3, InsertFacts
    <3>2. m(e) = n(e)
      BY <1>5, <2>3
    <3> HIDE DEF m, n
    <3> QED
      BY <2>1, <3>1, <3>2
  <2>4. CASE posts' = rest \cup {late} /\ UNCHANGED stored
    <3>1. LateFor(posts', e) = LateFor(posts, e) \/ LateFor(posts', e) = LateFor(posts, e) \cup {late}
      <4>1. LateFor(posts', e) = LateFor(rest, e) \/ LateFor(posts', e) = LateFor(rest, e) \cup {late}
        BY <1>2, <2>4 DEF LateFor
      <4> QED
        BY <1>5, <4>1
    <3>2. m(e) \in {n(e), n(e) + 1}
      BY <2>1, <3>1, FS_AddElement
    <3> HIDE DEF m, n
    <3> QED
      BY <2>1, <2>4, <3>2
  <2> QED
    BY <1>3, <2>2, <2>3, <2>4
<1> HIDE DEF n, m
<1>12. OneHome'
  BY <1>9 DEF OneHome
<1>13. ASSUME NEW e \in Entries PROVE Budget(e)'
  <2> DEFINE one == IF AtHand(e) THEN 1 ELSE 0
             oneNext == IF AtHand(e)' THEN 1 ELSE 0
  <2>1. stored[e] + n(e) + one <= 1 + faults
    BY DEF BufferIInv, Budget, n
  <2>2. one \in 0 .. 1 /\ oneNext \in 0 .. 1 /\ oneNext <= one
    BY <1>9
  <2>3. faults \in Nat /\ faults' = faults + 1
    BY <1>1 DEF BufferIInv, BufferTypeOK
  <2>4. /\ n(e) \in Nat /\ m(e) \in Nat /\ stored[e] \in Nat /\ stored'[e] \in Nat
        /\ stored'[e] + m(e) <= stored[e] + n(e) + 1
    BY <1>11
  <2> HIDE DEF one, oneNext
  <2>5. stored'[e] + m(e) + oneNext <= 1 + faults'
    BY <2>1, <2>2, <2>3, <2>4
  <2> QED
    BY <2>5 DEF Budget, m, oneNext
<1>14. ASSUME NEW e \in Entries, Fresh(e) PROVE Fresh(e)'
  <2>1. e \notin ToSet(p.batch) /\ e \notin ToSet(buffer) /\ stored[e] = 0
    BY <1>14 DEF Fresh
  <2>2. stored'[e] = 0
    <3>1. CASE UNCHANGED stored
      BY <2>1, <3>1
    <3>2. CASE Insert(p.batch)
      BY <2>1, <3>2, InsertFacts
    <3> QED
      BY <1>3, <3>1, <3>2
  <2>3. \A q \in posts' : e \notin ToSet(q.batch)
    BY <1>2, <1>3, <1>14, <2>1 DEF Fresh, rest
  <2>4. e \notin ToSet(buffer')
    BY <1>8, <2>1
  <2> QED
    BY <2>2, <2>3, <2>4 DEF Fresh
<1>15. LogsKept'
  <2> SUFFICES ASSUME kind = "logs", NEW l \in kept
               PROVE  \/ l \in ToSet(buffer') \/ stored'[l] > 0
                      \/ \E q \in posts' : q.waited /\ l \in ToSet(q.batch)
    BY <1>1 DEF LogsKept
  <2>1. l \in Entries
    BY DEF BufferIInv, BufferTypeOK
  <2>2. CASE l \in ToSet(buffer) \cup ToSet(p.batch)
    BY <1>8, <2>2
  <2>3. CASE stored[l] > 0
    BY <1>10, <2>1, <2>3
  <2>4. CASE \E q \in posts \ {p} : q.waited /\ l \in ToSet(q.batch)
    <3>1. PICK q \in posts \ {p} : q.waited /\ l \in ToSet(q.batch)
      BY <2>4
    <3>2. q \in posts'
      BY <1>3, <3>1 DEF rest
    <3> QED
      BY <3>1, <3>2
  <2>5. \/ l \in ToSet(buffer) \/ stored[l] > 0
        \/ \E q \in posts : q.waited /\ l \in ToSet(q.batch)
    BY DEF BufferIInv, LogsKept
  <2> QED
    BY <2>2, <2>3, <2>4, <2>5
<1> QED
  BY <1>1, <1>6, <1>8, <1>10, <1>12, <1>13, <1>14, <1>15, AnsweredKeeps

LEMMA BufferStep ==
    ASSUME BufferIInv, [BufferNext]_bufferVars
    PROVE  BufferIInv'
<1>1. CASE UNCHANGED bufferVars
  <2>1. UNCHANGED <<kind, configured, ticking, buffer, posts, stored, made, faults, kept, answered>>
    BY <1>1 DEF bufferVars
  <2>2. BufferTypeOK' /\ OneHome'
    BY <2>1 DEF BufferIInv, BufferTypeOK, OneHome
  <2>3. (\A e \in Entries : Budget(e)') /\ \A e \in Entries : e > made' => Fresh(e)'
    BY <2>1 DEF BufferIInv, Budget, Fresh, AtHand
  <2>4. LogsKept' /\ MetricsBounded'
    BY <2>1 DEF BufferIInv, LogsKept, MetricsBounded
  <2> QED
    BY <2>1, <2>2, <2>3, <2>4 DEF BufferIInv
<1>2. ASSUME NEW p \in posts, Serve(p) PROVE BufferIInv'
  BY <1>2, ServeKeeps
<1>3. ASSUME NEW p \in posts, Fail(p) PROVE BufferIInv'
  BY <1>3, FailKeeps
<1> QED
  BY <1>1, <1>2, <1>3, ConfigureKeeps, AddKeeps, IntervalKeeps, StopKeeps DEF BufferNext

-----------------------------------------------------------------------------
(* The session of the portal *)

\* The calls in flight are of their type, and a login is answered with a token.
CallsInv == \A r \in calls : r \in Call /\ (r.kind = "login" /\ r.answer = "ok" => r.token \in Token)

\* A session that was begun with no other request in flight has its user's profile, and only requests
\* under its own token, of which none is refused while the token is valid.
OwnSession ==
    clean /\ token # NoToken =>
        /\ profile = token.of
        /\ \A r \in calls : r.kind # "login" =>
              r.token = token /\ (r.answer = "refused" => ~Valid(token))

SessionIInv == SessionTypeOK /\ CallsInv /\ OwnSession

LEMMA SessionSound == SessionIInv => SessionTypeOK /\ ProfileIsTokens
BY DEF SessionIInv, OwnSession, ProfileIsTokens

LEMMA SessionInitIInv == SessionInit => SessionIInv
<1> SUFFICES ASSUME SessionInit PROVE SessionIInv
  OBVIOUS
<1>1. /\ token = NoToken /\ profile = Nobody /\ page = [t \in Tabs |-> "login"] /\ calls = {}
      /\ issued = 0 /\ dead = {} /\ deleted = {} /\ inactive = {} /\ events = 0
  BY DEF SessionInit
<1>2. clean \in BOOLEAN
  BY DEF SessionInit
<1>3. issued \in 0 .. MaxTokens /\ events \in 0 .. MaxEvents
  BY <1>1, SessionAssumption
<1> QED
  BY <1>1, <1>2, <1>3 DEF SessionIInv, SessionTypeOK, CallsInv, OwnSession

LEMMA CallTypes ==
    ASSUME SessionTypeOK
    PROVE  /\ token \in Token \cup {NoToken}
           /\ \A tok \in Token \cup {NoToken} : tok.of \in People \cup {Nobody}
           /\ NoToken \notin Token
           /\ \A t \in Tabs, k \in CallKinds, n \in {1, 2}, tok \in Token \cup {NoToken} :
                 /\ NthCall(t, k, n, tok) \in Call
                 /\ NthCall(t, k, n, tok).kind = k /\ NthCall(t, k, n, tok).token = tok
                 /\ NthCall(t, k, n, tok).answer = "none" /\ NthCall(t, k, n, tok).tab = t
           /\ \A t \in Tabs, k \in CallKinds, tok \in Token \cup {NoToken} :
                 /\ NewCall(t, k, tok) \in Call
                 /\ NewCall(t, k, tok).kind = k /\ NewCall(t, k, tok).token = tok
                 /\ NewCall(t, k, tok).answer = "none" /\ NewCall(t, k, tok).tab = t
<1>1. token \in Token \cup {NoToken}
  BY DEF SessionTypeOK
<1>2. \A tok \in Token : tok.no \in 1 .. MaxTokens /\ tok.of \in People
  BY DEF Token
<1>3. NoToken.no = 0 /\ NoToken.of = Nobody
  BY DEF NoToken
<1>4. NoToken \notin Token
  BY <1>2, <1>3
<1>5. ASSUME NEW t \in Tabs, NEW k \in CallKinds, NEW n \in {1, 2}, NEW tok \in Token \cup {NoToken}
      PROVE  /\ NthCall(t, k, n, tok) \in Call
             /\ NthCall(t, k, n, tok).kind = k /\ NthCall(t, k, n, tok).token = tok
             /\ NthCall(t, k, n, tok).answer = "none" /\ NthCall(t, k, n, tok).tab = t
  BY DEF NthCall, Call
<1>6. ASSUME NEW t \in Tabs, NEW k \in CallKinds, NEW tok \in Token \cup {NoToken}
      PROVE  /\ NewCall(t, k, tok) \in Call
             /\ NewCall(t, k, tok).kind = k /\ NewCall(t, k, tok).token = tok
             /\ NewCall(t, k, tok).answer = "none" /\ NewCall(t, k, tok).tab = t
  BY <1>5 DEF NewCall
<1> QED
  BY <1>1, <1>2, <1>3, <1>4, <1>5, <1>6

\* The session ends, or stays, and no call is new but those under its token.
LEMMA SameSession ==
    ASSUME SessionIInv, SessionTypeOK',
           \/ token' = NoToken
           \/ token' = token /\ profile' = profile /\ clean' = clean,
           \A r \in calls' : \/ r \in calls
                             \/ /\ r \in Call /\ (r.kind = "login" /\ r.answer = "ok" => r.token \in Token)
                                /\ r.kind # "login" => r.token = token /\ (r.answer = "refused" => ~Valid(token)),
           dead \subseteq dead', deleted \subseteq deleted'
    PROVE  SessionIInv'
<1>1. CallsInv'
  BY DEF SessionIInv, CallsInv
<1>2. OwnSession'
  <2>1. CASE token' = NoToken
    BY <2>1 DEF OwnSession
  <2>2. CASE token' = token /\ profile' = profile /\ clean' = clean
    <3> SUFFICES ASSUME clean, token # NoToken
                 PROVE  /\ profile' = token.of
                        /\ \A r \in calls' : r.kind # "login" =>
                              r.token = token /\ (r.answer = "refused" => ~Valid(token)')
      BY <2>2 DEF OwnSession
    <3>1. ~Valid(token) => ~Valid(token)'
      BY <2>2 DEF Valid
    <3>2. /\ profile = token.of
          /\ \A r \in calls : r.kind # "login" =>
                r.token = token /\ (r.answer = "refused" => ~Valid(token))
      BY DEF SessionIInv, OwnSession
    <3> QED
      BY <2>2, <3>1, <3>2
  <2> QED
    BY <2>1, <2>2
<1> QED
  BY <1>1, <1>2 DEF SessionIInv

\* A token is stored with its user's profile.
LEMMA NewSession ==
    ASSUME SessionIInv, SessionTypeOK', NEW tok \in Token, NEW others \in SUBSET calls, NEW t \in Tabs,
           StoreSession(tok, others), calls' = others \cup {NewCall(t, "me", tok)}
    PROVE  SessionIInv'
<1> DEFINE r == NewCall(t, "me", tok)
<1>1. r \in Call /\ r.kind = "me" /\ r.token = tok /\ r.answer = "none"
  <2>1. "me" \in CallKinds /\ SessionTypeOK
    BY DEF CallKinds, SessionIInv
  <2> QED
    BY <2>1, CallTypes
<1> HIDE DEF r
<1>2. calls' = others \cup {r}
  BY DEF r
<1>3. CallsInv'
  BY <1>1, <1>2 DEF SessionIInv, CallsInv
<1>4. OwnSession'
  BY <1>1, <1>2 DEF OwnSession, StoreSession
<1> QED
  BY <1>3, <1>4 DEF SessionIInv

LEMMA LoadKeeps ==
    ASSUME SessionIInv, NEW t \in Tabs, Load(t)
    PROVE  SessionIInv'
<1> DEFINE r == NewCall(t, "me", token)
<1>1. SessionTypeOK /\ calls \subseteq Call /\ page \in [Tabs -> {"login", "app"}]
  BY DEF SessionIInv, SessionTypeOK
<1>2. "me" \in CallKinds /\ "me" # "login"
  BY DEF CallKinds
<1>3. r \in Call /\ r.kind = "me" /\ r.token = token /\ r.answer = "none"
  BY <1>1, <1>2, CallTypes
<1> HIDE DEF r
<1>4. /\ UNCHANGED <<issued, dead, deleted, inactive, clean>>
      /\ \/ /\ calls' = OthersOf(t) \cup {r} /\ page' = [page EXCEPT ![t] = "app"]
            /\ Event /\ UNCHANGED <<token, profile>>
         \/ /\ ClearSession \/ UNCHANGED <<token, profile>>
            /\ page' = [page EXCEPT ![t] = "login"] /\ calls' = OthersOf(t) /\ UNCHANGED events
  BY DEF Load, r
<1>5. OthersOf(t) \subseteq calls
  BY DEF OthersOf
<1>6. calls' \subseteq Call /\ page' \in [Tabs -> {"login", "app"}]
  BY <1>1, <1>3, <1>4, <1>5
<1>7. events' \in 0 .. MaxEvents
  BY <1>1, <1>4, SessionAssumption DEF SessionTypeOK, Event
<1>8. token' \in Token \cup {NoToken} /\ profile' \in People \cup {Nobody}
  BY <1>1, <1>4 DEF SessionTypeOK, ClearSession
<1>9. SessionTypeOK'
  BY <1>1, <1>4, <1>6, <1>7, <1>8 DEF SessionTypeOK
<1>10. token' = NoToken \/ (token' = token /\ profile' = profile /\ clean' = clean)
  BY <1>4 DEF ClearSession
<1>11. \A q \in calls' : q \in calls \/ q = r
  BY <1>4, <1>5
<1> QED
  BY <1>3, <1>4, <1>9, <1>10, <1>11, SameSession

LEMMA LoadWithTokenKeeps ==
    ASSUME SessionIInv, NEW t \in Tabs, NEW u \in People, LoadWithToken(t, u)
    PROVE  SessionIInv'
<1> DEFINE tok == [no |-> issued + 1, of |-> u]
           r == NewCall(t, "me", tok)
<1>1. SessionTypeOK /\ calls \subseteq Call /\ page \in [Tabs -> {"login", "app"}] /\ issued \in 0 .. MaxTokens
  BY DEF SessionIInv, SessionTypeOK
<1>2. issued + 1 \in 1 .. MaxTokens /\ issued' = issued + 1 /\ issued' \in 0 .. MaxTokens
  BY <1>1, SessionAssumption DEF LoadWithToken
<1>3. tok \in Token /\ tok.of = u
  BY <1>2 DEF Token
<1>4. "me" \in CallKinds
  BY DEF CallKinds
<1>5. /\ StoreSession(tok, OthersOf(t)) /\ calls' = OthersOf(t) \cup {r}
      /\ page' = [page EXCEPT ![t] = "app"] /\ UNCHANGED <<dead, deleted, inactive, events>>
  BY DEF LoadWithToken
<1> HIDE DEF tok
<1>6. r \in Call
  BY <1>1, <1>3, <1>4, CallTypes
<1>7. OthersOf(t) \subseteq calls
  BY DEF OthersOf
<1>8. calls' \subseteq Call /\ page' \in [Tabs -> {"login", "app"}]
  BY <1>1, <1>5, <1>6, <1>7
<1>9. token' \in Token \cup {NoToken} /\ profile' \in People \cup {Nobody}
  BY <1>3, <1>5 DEF StoreSession
<1>10. clean' \in BOOLEAN
  BY <1>5 DEF StoreSession
<1>11. SessionTypeOK'
  BY <1>1, <1>2, <1>5, <1>8, <1>9, <1>10 DEF SessionTypeOK
<1> QED
  BY <1>3, <1>5, <1>7, <1>11, NewSession

\* A logout, and a wrong current password.
LEMMA ClearKeeps ==
    ASSUME SessionIInv, NEW t \in Tabs, ClearSession, page' = [page EXCEPT ![t] = "login"],
           UNCHANGED <<calls, issued, dead, deleted, inactive, events, clean>>
    PROVE  SessionIInv'
<1>1. page' \in [Tabs -> {"login", "app"}] /\ token' \in Token \cup {NoToken} /\ profile' \in People \cup {Nobody}
  BY DEF SessionIInv, SessionTypeOK, ClearSession
<1>2. SessionTypeOK'
  BY <1>1 DEF SessionIInv, SessionTypeOK
<1> QED
  BY <1>2, SameSession DEF ClearSession

LEMMA SendKeeps ==
    ASSUME SessionIInv, NEW t \in Tabs, NEW k \in CallKinds, NEW n \in {1, 2},
           NEW tok \in Token \cup {NoToken}, Send(t, k, n, tok),
           k # "login" => tok = token
    PROVE  SessionIInv'
<1> DEFINE r == NthCall(t, k, n, tok)
<1>1. r \in Call /\ r.kind = k /\ r.token = tok /\ r.answer = "none"
  BY CallTypes DEF SessionIInv
<1>2. calls' = calls \cup {r} /\ UNCHANGED <<token, profile, page, issued, dead, deleted, inactive, events, clean>>
  BY DEF Send
<1> HIDE DEF r
<1>3. SessionTypeOK'
  BY <1>1, <1>2 DEF SessionIInv, SessionTypeOK
<1> QED
  BY <1>1, <1>2, <1>3, SameSession

\* A call is answered, or ends.
LEMMA RespondKeeps ==
    ASSUME SessionIInv, NEW r \in calls, Respond(r)
    PROVE  SessionIInv'
<1>1. SessionTypeOK /\ r \in Call /\ calls \subseteq Call /\ issued \in 0 .. MaxTokens
  BY DEF SessionIInv, SessionTypeOK
<1>2. UNCHANGED <<token, profile, page, dead, deleted, inactive, events, clean>>
  BY DEF Respond
<1>3. ASSUME NEW q \in Call, calls' = (calls \ {r}) \cup {q}, issued' \in 0 .. MaxTokens,
             q.kind = r.kind, q.kind = "login" /\ q.answer = "ok" => q.token \in Token,
             q.kind # "login" => q.token = r.token /\ (q.answer = "refused" => ~Valid(r.token))
      PROVE  SessionIInv'
  <2>1. SessionTypeOK'
    BY <1>1, <1>2, <1>3 DEF SessionTypeOK
  <2>2. CallsInv'
    BY <1>3 DEF SessionIInv, CallsInv
  <2>3. OwnSession'
    <3> SUFFICES ASSUME clean, token # NoToken
                 PROVE  /\ profile = token.of
                        /\ \A x \in calls' : x.kind # "login" =>
                              x.token = token /\ (x.answer = "refused" => ~Valid(token))
      BY <1>2 DEF OwnSession, Valid
    <3>1. /\ profile = token.of
          /\ \A x \in calls : x.kind # "login" =>
                x.token = token /\ (x.answer = "refused" => ~Valid(token))
      BY DEF SessionIInv, OwnSession
    <3> QED
      BY <1>3, <3>1
  <2> QED
    BY <2>1, <2>2, <2>3 DEF SessionIInv
<1>4. CASE /\ r.kind = "login" /\ issued < MaxTokens /\ issued' = issued + 1
           /\ \E u \in People \ (deleted \cup inactive) :
                Becomes(r, [r EXCEPT !.answer = "ok", !.token = [no |-> issued + 1, of |-> u]])
  <2>1. PICK u \in People : Becomes(r, [r EXCEPT !.answer = "ok", !.token = [no |-> issued + 1, of |-> u]])
    BY <1>4
  <2> DEFINE tok == [no |-> issued + 1, of |-> u]
             q == [r EXCEPT !.answer = "ok", !.token = tok]
  <2>2. issued + 1 \in 1 .. MaxTokens /\ issued' \in 0 .. MaxTokens
    BY <1>1, <1>4, SessionAssumption
  <2>3. tok \in Token
    BY <2>2 DEF Token
  <2>4. calls' = (calls \ {r}) \cup {q}
    BY <2>1 DEF Becomes
  <2> HIDE DEF tok
  <2>5. q \in Call /\ q.kind = r.kind /\ q.token = tok
    BY <1>1, <2>3 DEF Call
  <2> HIDE DEF q
  <2> QED
    BY <1>3, <1>4, <2>2, <2>3, <2>4, <2>5
<1>5. CASE /\ r.kind = "login" \/ ~Valid(r.token)
           /\ Becomes(r, [r EXCEPT !.answer = "refused"]) /\ UNCHANGED issued
  <2> DEFINE q == [r EXCEPT !.answer = "refused"]
  <2>1. q \in Call /\ q.kind = r.kind /\ q.token = r.token /\ q.answer = "refused"
    BY <1>1 DEF Call
  <2>2. calls' = (calls \ {r}) \cup {q}
    BY <1>5 DEF Becomes
  <2> HIDE DEF q
  <2> QED
    BY <1>1, <1>3, <1>5, <2>1, <2>2
<1>6. CASE Ends(r) /\ UNCHANGED issued
  <2>1. calls' \subseteq calls
    BY <1>6 DEF Ends
  <2>2. SessionTypeOK'
    BY <1>1, <1>2, <1>6, <2>1 DEF SessionTypeOK
  <2> QED
    BY <1>2, <2>1, <2>2, SameSession
<1>7. CASE r.kind # "login" /\ Becomes(r, [r EXCEPT !.answer = "ok"]) /\ UNCHANGED issued
  <2> DEFINE q == [r EXCEPT !.answer = "ok"]
  <2>1. q \in Call /\ q.kind = r.kind /\ q.token = r.token /\ q.answer = "ok"
    BY <1>1 DEF Call
  <2>2. calls' = (calls \ {r}) \cup {q}
    BY <1>7 DEF Becomes
  <2> HIDE DEF q
  <2> QED
    BY <1>1, <1>3, <1>7, <2>1, <2>2
<1>8. CASE r.kind # "login" /\ Becomes(r, [r EXCEPT !.answer = "failed"]) /\ UNCHANGED issued
  <2> DEFINE q == [r EXCEPT !.answer = "failed"]
  <2>1. q \in Call /\ q.kind = r.kind /\ q.token = r.token /\ q.answer = "failed"
    BY <1>1 DEF Call
  <2>2. calls' = (calls \ {r}) \cup {q}
    BY <1>8 DEF Becomes
  <2> HIDE DEF q
  <2> QED
    BY <1>1, <1>3, <1>8, <2>1, <2>2
<1>9. r.kind = "me" => r.kind # "login"
  OBVIOUS
<1> QED
  BY <1>4, <1>5, <1>6, <1>7, <1>8, <1>9 DEF Respond

LEMMA LoggedInKeeps ==
    ASSUME SessionIInv, NEW r \in calls, LoggedIn(r)
    PROVE  SessionIInv'
<1> DEFINE q == NewCall(r.tab, "me", r.token)
<1>1. SessionTypeOK /\ r \in Call /\ calls \subseteq Call /\ page \in [Tabs -> {"login", "app"}]
  BY DEF SessionIInv, SessionTypeOK
<1>2. r.token \in Token /\ r.tab \in Tabs
  BY <1>1 DEF LoggedIn, SessionIInv, CallsInv, Call
<1>3. /\ StoreSession(r.token, calls \ {r}) /\ calls' = (calls \ {r}) \cup {q}
      /\ page' = [page EXCEPT ![r.tab] = "app"] /\ UNCHANGED <<issued, dead, deleted, inactive, events>>
  BY DEF LoggedIn, Becomes
<1>4. "me" \in CallKinds
  BY DEF CallKinds
<1>5. q \in Call
  BY <1>1, <1>2, <1>4, CallTypes
<1>6. calls' \subseteq Call /\ page' \in [Tabs -> {"login", "app"}]
  BY <1>1, <1>3, <1>5
<1>7. token' \in Token \cup {NoToken} /\ profile' \in People \cup {Nobody}
  <2>1. r.token.of \in People \cup {Nobody}
    BY <1>1, <1>2, CallTypes
  <2> QED
    BY <1>2, <1>3, <2>1 DEF StoreSession
<1>8. clean' \in BOOLEAN
  BY <1>3 DEF StoreSession
<1>9. SessionTypeOK'
  BY <1>1, <1>3, <1>6, <1>7, <1>8 DEF SessionTypeOK
<1>10. calls \ {r} \in SUBSET calls
  OBVIOUS
<1> QED
  BY <1>2, <1>3, <1>9, <1>10, NewSession

LEMMA UnauthorizedKeeps ==
    ASSUME SessionIInv, NEW r \in calls, Unauthorized(r)
    PROVE  SessionIInv'
<1>1. SessionTypeOK /\ r \in Call /\ calls \subseteq Call /\ page \in [Tabs -> {"login", "app"}]
  BY DEF SessionIInv, SessionTypeOK
<1>2. calls' \subseteq calls /\ UNCHANGED <<issued, dead, deleted, inactive, events, clean>>
  BY DEF Unauthorized, Ends
<1>3. \/ UNCHANGED <<token, profile, page>>
      \/ token' = NoToken /\ profile' = Nobody /\ page' = [page EXCEPT ![r.tab] = "login"]
  BY DEF Unauthorized, ClearSession
<1>4. page' \in [Tabs -> {"login", "app"}]
  BY <1>1, <1>3
<1>5. token' \in Token \cup {NoToken} /\ profile' \in People \cup {Nobody}
  BY <1>1, <1>3 DEF SessionTypeOK
<1>6. SessionTypeOK'
  BY <1>1, <1>2, <1>4, <1>5 DEF SessionTypeOK
<1> QED
  BY <1>2, <1>3, <1>6, SameSession

LEMMA RefreshedKeeps ==
    ASSUME SessionIInv, NEW r \in calls, Refreshed(r)
    PROVE  SessionIInv'
<1>1. SessionTypeOK /\ r \in Call /\ calls \subseteq Call /\ r.kind # "login"
  BY DEF SessionIInv, SessionTypeOK, Refreshed
<1>2. /\ calls' \subseteq calls /\ profile' = r.token.of
      /\ UNCHANGED <<token, page, issued, dead, deleted, inactive, events, clean>>
  BY DEF Refreshed, Ends
<1>3. profile' \in People \cup {Nobody}
  <2>1. r.token \in Token \cup {NoToken}
    BY <1>1 DEF Call
  <2> QED
    BY <1>1, <1>2, <2>1, CallTypes
<1>4. SessionTypeOK'
  BY <1>1, <1>2, <1>3 DEF SessionTypeOK
<1>5. CallsInv'
  BY <1>2 DEF SessionIInv, CallsInv
<1>6. OwnSession'
  BY <1>1, <1>2 DEF SessionIInv, OwnSession, Valid
<1> QED
  BY <1>4, <1>5, <1>6 DEF SessionIInv

\* Tokens expire, users are deleted, and their accounts made inactive and active again.
LEMMA EventKeeps ==
    ASSUME SessionIInv, dead \subseteq dead', deleted \subseteq deleted', dead' \subseteq 1 .. MaxTokens,
           deleted' \subseteq People, inactive' \subseteq People, Event, UNCHANGED <<token, profile, page, calls, issued, clean>>
    PROVE  SessionIInv'
<1>1. events' \in 0 .. MaxEvents
  BY SessionAssumption DEF SessionIInv, SessionTypeOK, Event
<1>2. SessionTypeOK'
  BY <1>1 DEF SessionIInv, SessionTypeOK
<1> QED
  BY <1>2, SameSession

LEMMA ExpireKeeps == SessionIInv /\ Expire => SessionIInv'
<1> SUFFICES ASSUME SessionIInv, Expire PROVE SessionIInv'
  OBVIOUS
<1>1. PICK tok \in {token} \cup {r.token : r \in calls} :
        tok # NoToken /\ tok.no \notin dead /\ dead' = dead \cup {tok.no}
  BY DEF Expire
<1>2. tok \in Token
  BY <1>1 DEF SessionIInv, SessionTypeOK, Call
<1>3. tok.no \in 1 .. MaxTokens
  BY <1>2 DEF Token
<1>4. dead \subseteq 1 .. MaxTokens /\ deleted \subseteq People /\ inactive \subseteq People
  BY DEF SessionIInv, SessionTypeOK
<1> QED
  BY <1>1, <1>3, <1>4, EventKeeps DEF Expire

LEMMA DeleteUserKeeps == SessionIInv /\ DeleteUser => SessionIInv'
<1> SUFFICES ASSUME SessionIInv, DeleteUser PROVE SessionIInv'
  OBVIOUS
<1>1. PICK u \in People : deleted' = deleted \cup {u}
  BY DEF DeleteUser
<1>2. dead \subseteq 1 .. MaxTokens /\ deleted \subseteq People /\ inactive \subseteq People
  BY DEF SessionIInv, SessionTypeOK
<1> QED
  BY <1>1, <1>2, EventKeeps DEF DeleteUser

LEMMA SetActiveKeeps == SessionIInv /\ SetActive => SessionIInv'
<1> SUFFICES ASSUME SessionIInv, SetActive PROVE SessionIInv'
  OBVIOUS
<1>1. PICK u \in People : inactive' = IF u \in inactive THEN inactive \ {u} ELSE inactive \cup {u}
  BY DEF SetActive
<1>2. dead \subseteq 1 .. MaxTokens /\ deleted \subseteq People /\ inactive \subseteq People
  BY DEF SessionIInv, SessionTypeOK
<1>3. inactive' \subseteq People
  BY <1>1, <1>2
<1> QED
  BY <1>2, <1>3, EventKeeps DEF SetActive

LEMMA SessionStep ==
    ASSUME SessionIInv, [SessionNext]_sessionVars
    PROVE  SessionIInv'
<1>1. CASE UNCHANGED sessionVars
  <2>1. UNCHANGED <<token, profile, page, calls, issued, dead, deleted, inactive, events, clean>>
    BY <1>1 DEF sessionVars
  <2>2. SessionTypeOK'
    BY <2>1 DEF SessionIInv, SessionTypeOK
  <2> QED
    BY <2>1, <2>2, SameSession
<1>2. ASSUME NEW r \in calls, Respond(r) \/ Receive(r) PROVE SessionIInv'
  <2>1. Respond(r) => SessionIInv'
    BY RespondKeeps
  <2>2. LoggedIn(r) => SessionIInv'
    BY LoggedInKeeps
  <2>3. Unauthorized(r) => SessionIInv'
    BY UnauthorizedKeeps
  <2>4. Refreshed(r) => SessionIInv'
    BY RefreshedKeeps
  <2> QED
    BY <1>2, <2>1, <2>2, <2>3, <2>4 DEF Receive
<1>3. ASSUME NEW t \in Tabs,
             \/ Load(t) \/ LogsOut(t)
             \/ \E u \in People : LoadWithToken(t, u)
             \/ SendLogin(t) \/ Poll(t) \/ WrongCurrentPassword(t)
      PROVE  SessionIInv'
  <2>1. Load(t) => SessionIInv'
    BY LoadKeeps
  <2>2. LogsOut(t) => SessionIInv'
    BY ClearKeeps DEF LogsOut
  <2>3. (\E u \in People : LoadWithToken(t, u)) => SessionIInv'
    BY LoadWithTokenKeeps
  <2>4. {"login", "poll"} \subseteq CallKinds /\ token \in Token \cup {NoToken}
    BY DEF CallKinds, SessionIInv, SessionTypeOK
  <2>5. SendLogin(t) => SessionIInv'
    BY <2>4, SendKeeps DEF SendLogin
  <2>6. Poll(t) => SessionIInv'
    BY <2>4, SendKeeps DEF Poll
  <2>7. WrongCurrentPassword(t) => SessionIInv'
    BY ClearKeeps DEF WrongCurrentPassword
  <2> QED
    BY <1>3, <2>1, <2>2, <2>3, <2>5, <2>6, <2>7
<1> QED
  BY <1>1, <1>2, <1>3, ExpireKeeps, DeleteUserKeeps, SetActiveKeeps DEF SessionNext

\* No step but a logout, a wrong current password and the 401 of a failing database ends a session of
\* its own that is valid.
LEMMA SessionStays ==
    ASSUME SessionIInv, [SessionNext]_sessionVars, clean, Valid(token), token' = NoToken
    PROVE  \/ \E t \in Tabs : LogsOut(t) \/ WrongCurrentPassword(t)
           \/ \E r \in calls : r.answer = "failed" /\ Unauthorized(r)
<1>1. token # NoToken /\ SessionTypeOK /\ token.no \notin dead
  BY DEF Valid, SessionIInv
<1>2. NoToken.no = 0
  BY DEF NoToken
<1>3. ASSUME NEW t \in Tabs, Load(t) PROVE FALSE
  BY <1>1, <1>3 DEF Load
<1>4. ASSUME NEW t \in Tabs, NEW u \in People, LoadWithToken(t, u) PROVE FALSE
  <2>1. token'.no = issued + 1 /\ issued \in Nat
    BY <1>1, <1>4, SessionAssumption DEF LoadWithToken, StoreSession, SessionTypeOK
  <2> QED
    BY <1>2, <2>1
<1>5. ASSUME NEW t \in Tabs, SendLogin(t) \/ Poll(t) PROVE FALSE
  BY <1>1, <1>5 DEF SendLogin, Poll, Send
<1>6. ASSUME NEW r \in calls, Respond(r) PROVE FALSE
  BY <1>1, <1>6 DEF Respond
<1>7. ASSUME NEW r \in calls, LoggedIn(r) PROVE FALSE
  BY <1>1, <1>7, CallTypes DEF LoggedIn, StoreSession, SessionIInv, CallsInv
<1>8. ASSUME NEW r \in calls, Unauthorized(r) PROVE r.answer = "failed"
  <2>1. r.kind # "login" /\ r.answer \in {"refused", "failed"}
    BY <1>1, <1>8 DEF Unauthorized
  <2> QED
    BY <1>1, <2>1 DEF SessionIInv, OwnSession
<1>9. ASSUME NEW r \in calls, Refreshed(r) PROVE FALSE
  BY <1>1, <1>9 DEF Refreshed
<1>10. Expire \/ DeleteUser \/ SetActive \/ UNCHANGED sessionVars => FALSE
  BY <1>1 DEF Expire, DeleteUser, SetActive, sessionVars
<1>11. SessionNext
  BY <1>10
<1>12. CASE \E r \in calls : Respond(r) \/ Receive(r)
  BY <1>6, <1>7, <1>8, <1>9, <1>12 DEF Receive
<1>13. CASE \E t \in Tabs : \/ Load(t) \/ LogsOut(t)
                            \/ \E u \in People : LoadWithToken(t, u)
                            \/ SendLogin(t) \/ Poll(t) \/ WrongCurrentPassword(t)
  BY <1>3, <1>4, <1>5, <1>13
<1> QED
  BY <1>10, <1>11, <1>12, <1>13 DEF SessionNext

-----------------------------------------------------------------------------
(* The portal's page of a project *)

\* The requests in flight are few, and each is about what its kind says.
AsksInv ==
    /\ IsFiniteSet(asks)
    /\ \A a \in asks :
          /\ a.kind \in {"branches", "commits"} => a.of \in Refs \cup {Nil}
          /\ a.kind = "versions" => a.of \in Secrets
          /\ a.kind = "logs" => a.of \in Pods \cup {Nil}
          /\ a.kind = "list" => a.then \in {"unread", "none", "running", "ended"}

\* A user who waits has one request in flight at most; commits that are asked for are those of the
\* branch that is chosen, and with nothing in flight the form has no others.
FormInv ==
    focus = "form" /\ ~unsure =>
        /\ asks = {} => form.commit \in {Nil, form.branch} /\ commits \in {Nil, form.branch}
        /\ \A a \in asks : asks = {a} /\ (a.kind = "commits" => a.of = form.branch)

\* Of the dialog: it shows the versions of the secret that was chosen, or they are on their way.
DialogInv ==
    focus = "secrets" /\ ~unsure =>
        /\ dialog.open => dialog.of = dialog.shows /\ asks = {}
        /\ \A a \in asks : asks = {a} /\ a.of = dialog.of

\* Of the timers: none is set where nothing is refreshed, and what will set one finds its page there.
PollsInv ==
    /\ focus \in {"form", "secrets"} => ~timer /\ ~modal.timer
    /\ focus \in {"list", "pods"} /\ ~unsure =>
          /\ modal.timer => modal.open
          /\ timer \/ modal.timer => ~left
          /\ focus = "list" /\ left => loaded
          /\ \A a \in asks : a.then = "start" => modal.open /\ ~left

PageIInv ==
    /\ ProjectPageTypeOK /\ AsksInv /\ FormInv /\ DialogInv /\ PollsInv
    /\ PostedAsClicked /\ RolledAsShown

LEMMA PageSound == PageIInv => PageInv
<1> SUFFICES ASSUME PageIInv PROVE NothingPolls
  BY DEF PageIInv, PageInv
<1>1. focus \in {"form", "list", "secrets", "pods"}
  BY DEF PageIInv, ProjectPageTypeOK
<1>2. PollsInv
  BY DEF PageIInv
<1>3. CASE focus \in {"form", "secrets"}
  BY <1>2, <1>3 DEF PollsInv, NothingPolls
<1>4. CASE focus \in {"list", "pods"}
  BY <1>2, <1>4 DEF PollsInv, NothingPolls
<1> QED
  BY <1>1, <1>3, <1>4

LEMMA PageInitIInv == PageInit => PageIInv
<1> SUFFICES ASSUME PageInit PROVE PageIInv
  OBVIOUS
<1> USE DEF PageInit
<1>1. asks = {} /\ IsFiniteSet(asks) /\ Cardinality(asks) = 0
  BY FS_EmptySet
<1>2. form \in [branch : Refs \cup {Nil}, commit : Refs \cup {Nil}] /\ form.commit = form.branch
  <2>1. Main \in Refs
    BY ProjectPageAssumption DEF Refs
  <2> QED
    BY <2>1
<1>3. posted = [clicked |-> Nil, branch |-> Nil, commit |-> Nil, sure |-> FALSE]
  OBVIOUS
<1>4. ProjectPageTypeOK
  <2>1. 0 <= MaxAsks /\ 0 \in 0 .. MaxDeploys
    BY ProjectPageAssumption
  <2>2. {loaded, left, unsure, listed, linked, tab, timer} \subseteq BOOLEAN
    <3>1. loaded \in BOOLEAN /\ left \in BOOLEAN /\ unsure \in BOOLEAN /\ linked \in BOOLEAN
      OBVIOUS
    <3>2. listed \in BOOLEAN /\ tab \in BOOLEAN /\ timer \in BOOLEAN
      BY <3>1
    <3> QED
      BY <3>1, <3>2
  <2>3. posted \in [clicked : Refs \cup {Nil}, branch : Refs \cup {Nil}, commit : Refs \cup {Nil}, sure : BOOLEAN]
    BY <1>3
  <2>4. /\ dialog \in [of : Secrets \cup {Nil}, shows : Secrets \cup {Nil}, open : BOOLEAN]
        /\ rolled \in [of : Secrets \cup {Nil}, shown : Secrets \cup {Nil}, sure : BOOLEAN]
        /\ modal \in [of : Pods \cup {Nil}, shows : Pods \cup {Nil}, open : BOOLEAN, timer : BOOLEAN]
    OBVIOUS
  <2>5. focus \in {"form", "list", "secrets", "pods"} /\ commits \in Refs \cup {Nil}
    BY <1>2
  <2>6. {status, list} \subseteq {"none", "running", "ended"} /\ began \in 0 .. MaxDeploys
    BY <2>1
  <2>7. Cardinality(asks) <= MaxAsks
    BY <1>1, <2>1
  <2>8. asks \subseteq [kind : AskKinds, of : Refs \cup Secrets \cup Pods \cup {Nil}, then : Thens]
    BY <1>1
  <2> QED
    BY <1>2, <2>2, <2>3, <2>4, <2>5, <2>6, <2>7, <2>8 DEF ProjectPageTypeOK
<1>5. AsksInv
  BY <1>1 DEF AsksInv
<1>6. FormInv /\ DialogInv
  BY <1>1, <1>2 DEF FormInv, DialogInv
<1>7. PollsInv
  BY <1>1 DEF PollsInv
<1>8. PostedAsClicked /\ RolledAsShown
  BY DEF PostedAsClicked, RolledAsShown
<1> QED
  BY <1>4, <1>5, <1>6, <1>7, <1>8 DEF PageIInv

AskType == [kind : AskKinds, of : Refs \cup Secrets \cup Pods \cup {Nil}, then : Thens]

\* A request that fits.
Fits(a) ==
    /\ a \in AskType
    /\ a.kind \in {"branches", "commits"} => a.of \in Refs \cup {Nil}
    /\ a.kind = "versions" => a.of \in Secrets
    /\ a.kind = "logs" => a.of \in Pods \cup {Nil}
    /\ a.kind = "list" => a.then \in {"unread", "none", "running", "ended"}

AsksOK == IsFiniteSet(asks) /\ Cardinality(asks) <= MaxAsks /\ \A a \in asks : Fits(a)

LEMMA AsksAre ==
    ASSUME PageIInv
    PROVE  AsksOK
BY DEF PageIInv, AsksInv, ProjectPageTypeOK, AsksOK, Fits, AskType

LEMMA AskSent ==
    ASSUME AsksOK, NEW a, Fits(a), Sent({a})
    PROVE  AsksOK'
<1>1. asks' = asks \cup {a} /\ Cardinality(asks') <= MaxAsks
  BY DEF Sent
<1>2. IsFiniteSet(asks')
  BY <1>1, FS_AddElement DEF AsksOK
<1>3. \A b \in asks' : Fits(b)
  BY <1>1 DEF AsksOK
<1> QED
  BY <1>1, <1>2, <1>3 DEF AsksOK

LEMMA AskAnswered ==
    ASSUME AsksOK, NEW a \in asks, asks' = asks \ {a}
    PROVE  AsksOK'
<1>1. IsFiniteSet(asks') /\ Cardinality(asks') = Cardinality(asks) - 1
  BY FS_RemoveElement DEF AsksOK
<1>2. Cardinality(asks) \in Nat /\ MaxAsks \in Nat /\ Cardinality(asks) <= MaxAsks
  BY FS_CardinalityType, ProjectPageAssumption DEF AsksOK
<1>3. Cardinality(asks') <= MaxAsks
  BY <1>1, <1>2
<1>4. \A b \in asks' : Fits(b)
  BY DEF AsksOK
<1> QED
  BY <1>1, <1>3, <1>4 DEF AsksOK

LEMMA AskFollowed ==
    ASSUME AsksOK, NEW a \in asks, NEW b, Fits(b), asks' = (asks \ {a}) \cup {b}
    PROVE  AsksOK'
<1> DEFINE rest == asks \ {a}
<1>1. IsFiniteSet(rest) /\ Cardinality(rest) = Cardinality(asks) - 1
  BY FS_RemoveElement DEF AsksOK
<1> HIDE DEF rest
<1>2. asks' = rest \cup {b}
  BY DEF rest
<1>3. IsFiniteSet(asks') /\ (Cardinality(asks') = Cardinality(rest) \/ Cardinality(asks') = Cardinality(rest) + 1)
  BY <1>1, <1>2, FS_AddElement
<1>4. Cardinality(asks) \in Nat /\ MaxAsks \in Nat /\ Cardinality(asks) <= MaxAsks
  BY FS_CardinalityType, ProjectPageAssumption DEF AsksOK
<1>5. Cardinality(asks') <= MaxAsks
  BY <1>1, <1>3, <1>4
<1>6. \A c \in asks' : Fits(c)
  BY DEF AsksOK
<1> QED
  BY <1>3, <1>5, <1>6 DEF AsksOK

FormType == [branch : Refs \cup {Nil}, commit : Refs \cup {Nil}]
PostedType == [clicked : Refs \cup {Nil}, branch : Refs \cup {Nil}, commit : Refs \cup {Nil}, sure : BOOLEAN]

LEMMA FormKeeps ==
    ASSUME PageIInv, FormPart, AsksOK', form' \in FormType, commits' \in Refs \cup {Nil},
           listed' \in BOOLEAN, linked' \in BOOLEAN, unsure' \in BOOLEAN,
           posted' \in PostedType, PostedAsClicked', FormInv'
    PROVE  PageIInv'
<1> USE DEF FormPart, listVars, dialogVars
<1>1. ProjectPageTypeOK'
  <2>1. /\ focus' \in {"form", "list", "secrets", "pods"}
        /\ {status, list}' \subseteq {"none", "running", "ended"} /\ began' \in 0 .. MaxDeploys
        /\ (dialog \in [of : Secrets \cup {Nil}, shows : Secrets \cup {Nil}, open : BOOLEAN])'
        /\ (rolled \in [of : Secrets \cup {Nil}, shown : Secrets \cup {Nil}, sure : BOOLEAN])'
        /\ (modal \in [of : Pods \cup {Nil}, shows : Pods \cup {Nil}, open : BOOLEAN, timer : BOOLEAN])'
    BY DEF PageIInv, ProjectPageTypeOK
  <2>2. {loaded, left, tab, timer}' \subseteq BOOLEAN
    BY DEF PageIInv, ProjectPageTypeOK
  <2>3. {loaded, left, unsure, listed, linked, tab, timer}' \subseteq BOOLEAN
    BY <2>2
  <2>4. asks' \subseteq AskType /\ Cardinality(asks') <= MaxAsks
    BY DEF AsksOK, Fits
  <2> QED
    BY <2>1, <2>3, <2>4 DEF ProjectPageTypeOK, AskType, FormType, PostedType
<1>2. AsksInv'
  BY DEF AsksOK, Fits, AsksInv
<1>3. DialogInv' /\ PollsInv' /\ RolledAsShown'
  BY DEF PageIInv, DialogInv, PollsInv, RolledAsShown
<1> QED
  BY <1>1, <1>2, <1>3 DEF PageIInv

LEMMA FormTypes ==
    ASSUME PageIInv
    PROVE  /\ form \in FormType /\ form.branch \in Refs \cup {Nil} /\ form.commit \in Refs \cup {Nil}
           /\ commits \in Refs \cup {Nil} /\ posted \in PostedType
           /\ listed \in BOOLEAN /\ linked \in BOOLEAN /\ unsure \in BOOLEAN
           /\ FormInv /\ PostedAsClicked /\ AsksOK
           /\ Main \in Refs /\ Release \in Refs /\ Nil \notin Refs /\ Branches \subseteq Refs
<1>1. form \in FormType /\ commits \in Refs \cup {Nil} /\ posted \in PostedType
  BY DEF PageIInv, ProjectPageTypeOK, FormType, PostedType
<1>2. form.branch \in Refs \cup {Nil} /\ form.commit \in Refs \cup {Nil}
  BY <1>1 DEF FormType
<1>3. listed \in BOOLEAN /\ linked \in BOOLEAN /\ unsure \in BOOLEAN
  BY DEF PageIInv, ProjectPageTypeOK
<1>4. Main \in Refs /\ Release \in Refs /\ Nil \notin Refs /\ Branches \subseteq Refs
  BY ProjectPageAssumption DEF Refs
<1> QED
  BY <1>1, <1>2, <1>3, <1>4, AsksAre DEF PageIInv

LEMMA AskFits ==
    ASSUME NEW k \in {"branches", "commits"}, NEW r \in Refs \cup {Nil}, NEW t \in Thens
    PROVE  Fits(Ask(k, r, t)) /\ Ask(k, r, t).kind = k /\ Ask(k, r, t).of = r /\ Ask(k, r, t).then = t
<1>1. Ask(k, r, t) \in AskType
  BY DEF Ask, AskType, AskKinds
<1>2. Ask(k, r, t).kind = k /\ Ask(k, r, t).of = r /\ Ask(k, r, t).then = t
  BY DEF Ask
<1> QED
  BY <1>1, <1>2 DEF Fits

LEMMA ChooseBranchStep == PageIInv /\ ChooseBranch => PageIInv'
<1> SUFFICES ASSUME PageIInv, ChooseBranch PROVE PageIInv'
  OBVIOUS
<1> USE FormTypes
<1>1. PICK b \in Branches :
         /\ form' = [branch |-> b, commit |-> IF listed THEN b ELSE form.commit]
         /\ Sent({Ask("commits", b, "nothing")})
  BY DEF ChooseBranch
<1> DEFINE a == Ask("commits", b, "nothing")
<1>2. Fits(a) /\ a.kind = "commits" /\ a.of = b
  <2>1. b \in Refs \cup {Nil} /\ "nothing" \in Thens /\ "commits" \in {"branches", "commits"}
    BY DEF Thens
  <2> QED
    BY <2>1, AskFits
<1>3. Sent({a})
  BY <1>1
<1> HIDE DEF a
<1>4. AsksOK'
  BY <1>2, <1>3, AskSent
<1>5. form' \in FormType /\ form'.branch = b
  BY <1>1 DEF FormType
<1>6. FormPart /\ unsure' = (asks # {}) /\ UNCHANGED <<listed, commits, posted, linked>>
  BY DEF ChooseBranch
<1>7. asks' = asks \cup {a}
  BY <1>3 DEF Sent
<1>8. FormInv'
  BY <1>2, <1>5, <1>6, <1>7 DEF FormInv
<1>9. PostedAsClicked'
  BY <1>6 DEF PostedAsClicked
<1>10. unsure' \in BOOLEAN
  BY <1>6
<1>11. listed' \in BOOLEAN /\ linked' \in BOOLEAN /\ commits' \in Refs \cup {Nil} /\ posted' \in PostedType
  BY <1>6
<1> QED
  BY <1>4, <1>5, <1>6, <1>8, <1>9, <1>10, <1>11, FormKeeps

LEMMA ChooseCommitStep == PageIInv /\ ChooseCommit => PageIInv'
<1> SUFFICES ASSUME PageIInv, ChooseCommit PROVE PageIInv'
  OBVIOUS
<1> USE FormTypes
<1>1. /\ FormPart /\ unsure' = (unsure \/ asks # {}) /\ form' = [form EXCEPT !.commit = commits]
      /\ asks' = asks /\ UNCHANGED <<listed, commits, posted, linked>>
  BY DEF ChooseCommit
<1>2. form' \in FormType /\ form'.branch = form.branch /\ form'.commit = commits
  BY <1>1 DEF FormType
<1>3. AsksOK'
  BY <1>1 DEF AsksOK
<1>4. FormInv'
  BY <1>1, <1>2 DEF FormInv, FormPart
<1>5. PostedAsClicked'
  BY <1>1 DEF PostedAsClicked
<1>6. unsure' \in BOOLEAN
  BY <1>1
<1>7. listed' \in BOOLEAN /\ linked' \in BOOLEAN /\ commits' \in Refs \cup {Nil} /\ posted' \in PostedType
  BY <1>1
<1> QED
  BY <1>1, <1>2, <1>3, <1>4, <1>5, <1>6, <1>7, FormKeeps

LEMMA DeployReleaseStep == PageIInv /\ DeployRelease => PageIInv'
<1> SUFFICES ASSUME PageIInv, DeployRelease PROVE PageIInv'
  OBVIOUS
<1> USE FormTypes
<1> DEFINE a == Ask("commits", Release, "release")
<1>2. Fits(a) /\ a.kind = "commits" /\ a.of = Release
  <2>1. Release \in Refs \cup {Nil} /\ "release" \in Thens /\ "commits" \in {"branches", "commits"}
    BY DEF Thens
  <2> QED
    BY <2>1, AskFits
<1>3. Sent({a}) /\ form' = [branch |-> Release, commit |-> Release]
  BY DEF DeployRelease
<1> HIDE DEF a
<1>4. AsksOK'
  BY <1>2, <1>3, AskSent
<1>5. form' \in FormType /\ form'.branch = Release
  BY <1>3 DEF FormType
<1>6. FormPart /\ unsure' = (asks # {}) /\ UNCHANGED <<listed, commits, posted, linked>>
  BY DEF DeployRelease
<1>7. asks' = asks \cup {a}
  BY <1>3 DEF Sent
<1>8. FormInv'
  BY <1>2, <1>5, <1>6, <1>7 DEF FormInv
<1>9. PostedAsClicked'
  BY <1>6 DEF PostedAsClicked
<1>10. unsure' \in BOOLEAN
  BY <1>6
<1>11. listed' \in BOOLEAN /\ linked' \in BOOLEAN /\ commits' \in Refs \cup {Nil} /\ posted' \in PostedType
  BY <1>6
<1> QED
  BY <1>4, <1>5, <1>6, <1>8, <1>9, <1>10, <1>11, FormKeeps

\* What is posted is of its type; if the user waited, it must be what was clicked.
LEMMA PostsWhat ==
    ASSUME NEW clicked \in Refs \cup {Nil}, form' \in FormType, unsure' \in BOOLEAN, Posts(clicked, form'),
           ~unsure' => form'.branch = clicked /\ form'.commit \in {Nil, clicked}
    PROVE  posted' \in PostedType /\ PostedAsClicked'
<1>1. posted' = [clicked |-> clicked, branch |-> form'.branch, commit |-> form'.commit, sure |-> ~unsure']
  BY DEF Posts
<1>2. form'.branch \in Refs \cup {Nil} /\ form'.commit \in Refs \cup {Nil}
  BY DEF FormType
<1>3. (~unsure') \in BOOLEAN
  OBVIOUS
<1>4. posted' \in PostedType
  BY <1>1, <1>2, <1>3 DEF PostedType
<1>5. posted'.clicked = clicked /\ posted'.branch = form'.branch /\ posted'.commit = form'.commit
  BY <1>1
<1>6. posted'.sure = ~unsure'
  BY <1>1
<1>7. posted'.sure => ~unsure'
  BY <1>6
<1>8. PostedAsClicked'
  BY <1>5, <1>7 DEF PostedAsClicked
<1> QED
  BY <1>4, <1>8

\* The branches are asked for.
LEMMA GitAsked ==
    ASSUME PageIInv, FormPart, NEW clicked \in Refs \cup {Nil}, NEW then \in {"loaded", "deploy"},
           LoadGit(clicked, then), unsure' = (unsure \/ asks # {}), form' = form, posted' = posted
    PROVE  PageIInv'
<1> USE FormTypes
<1> DEFINE a == Ask("branches", clicked, then)
<1>1. Fits(a) /\ a.kind = "branches"
  <2>1. then \in Thens /\ "branches" \in {"branches", "commits"}
    BY DEF Thens
  <2> QED
    BY <2>1, AskFits
<1>2. Sent({a}) /\ listed' = FALSE /\ commits' = Nil /\ linked' = TRUE
  BY DEF LoadGit
<1> HIDE DEF a
<1>3. AsksOK'
  BY <1>1, <1>2, AskSent
<1>4. asks' = asks \cup {a}
  BY <1>2 DEF Sent
<1>5. FormInv'
  <2>1. ~unsure' => asks' = {a}
    BY <1>4
  <2> QED
    BY <2>1, <1>1 DEF FormInv
<1>6. PostedAsClicked'
  BY DEF PostedAsClicked
<1>7. unsure' \in BOOLEAN
  OBVIOUS
<1>8. listed' \in BOOLEAN /\ linked' \in BOOLEAN /\ commits' \in Refs \cup {Nil} /\ posted' \in PostedType /\ form' \in FormType
  BY <1>2
<1> QED
  BY <1>3, <1>5, <1>6, <1>7, <1>8, FormKeeps

LEMMA SaveSettingsStep == PageIInv /\ SaveProjectSettings => PageIInv'
<1> SUFFICES ASSUME PageIInv, SaveProjectSettings PROVE PageIInv'
  OBVIOUS
<1>1. /\ FormPart /\ unsure' = (unsure \/ asks # {}) /\ LoadGit(Nil, "loaded")
      /\ form' = form /\ posted' = posted
  BY DEF SaveProjectSettings
<1> QED
  BY <1>1, GitAsked

LEMMA DeployStep == PageIInv /\ Deploy => PageIInv'
<1> SUFFICES ASSUME PageIInv, Deploy PROVE PageIInv'
  OBVIOUS
<1> USE FormTypes
<1>1. FormPart /\ form.branch # Nil /\ unsure' = (unsure \/ asks # {}) /\ form' = form
  BY DEF Deploy
<1>2. CASE Posts(form.branch, form) /\ UNCHANGED <<asks, listed, commits, linked>>
  <2>1. AsksOK'
    BY <1>2 DEF AsksOK
  <2>2. unsure' \in BOOLEAN /\ form' \in FormType
    BY <1>1
  <2>3. ~unsure' => form'.branch = form.branch /\ form'.commit \in {Nil, form.branch}
    BY <1>1 DEF FormInv, FormPart
  <2>4. Posts(form.branch, form')
    BY <1>1, <1>2
  <2>5. posted' \in PostedType /\ PostedAsClicked'
    BY <2>2, <2>3, <2>4, PostsWhat
  <2>6. FormInv'
    BY <1>1, <1>2 DEF FormInv, FormPart
  <2>7. listed' \in BOOLEAN /\ linked' \in BOOLEAN /\ commits' \in Refs \cup {Nil}
    BY <1>2
  <2> QED
    BY <1>1, <2>1, <2>2, <2>5, <2>6, <2>7, FormKeeps
<1>3. CASE LoadGit(form.branch, "deploy") /\ UNCHANGED posted
  BY <1>1, <1>3, GitAsked
<1> QED
  BY <1>2, <1>3 DEF Deploy

LEMMA BranchedStep == \A a \in asks : PageIInv /\ Branched(a) => PageIInv'
<1> SUFFICES ASSUME PageIInv, NEW a \in asks, Branched(a) PROVE PageIInv'
  OBVIOUS
<1> USE FormTypes
<1>1. FormPart /\ a.kind = "branches" /\ commits' = commits /\ linked' = linked
  BY DEF Branched
<1>2. a \in AskType /\ Fits(a) /\ a.then \in Thens
  BY DEF AsksOK, Fits, AskType
<1>3. a.of \in Refs \cup {Nil}
  BY <1>1, <1>2 DEF Fits
<1>4. ASSUME listed' = TRUE, form' = [branch |-> Main, commit |-> Main],
             asks' = (asks \ {a}) \cup {Ask("commits", Main, a.then)},
             unsure' = (unsure \/ a.of \notin {Main, Nil}), posted' = posted
      PROVE  PageIInv'
  <2> DEFINE b == Ask("commits", Main, a.then)
  <2>1. Fits(b) /\ b.kind = "commits" /\ b.of = Main
    <3>1. "commits" \in {"branches", "commits"}
      OBVIOUS
    <3> QED
      BY <1>2, <3>1, AskFits
  <2>2. asks' = (asks \ {a}) \cup {b}
    BY <1>4
  <2> HIDE DEF b
  <2>3. AsksOK'
    BY <2>1, <2>2, AskFollowed
  <2>4. form' \in FormType /\ form'.branch = Main
    BY <1>4 DEF FormType
  <2>5. unsure' \in BOOLEAN
    BY <1>4
  <2>6. FormInv'
    <3>1. ~unsure' => asks' = {b}
      BY <1>1, <1>4, <2>2 DEF FormInv, FormPart
    <3> QED
      BY <3>1, <2>1, <2>4 DEF FormInv
  <2>7. PostedAsClicked' /\ posted' \in PostedType
    BY <1>4 DEF PostedAsClicked
  <2>8. listed' \in BOOLEAN /\ linked' \in BOOLEAN /\ commits' \in Refs \cup {Nil}
    BY <1>1, <1>4
  <2> QED
    BY <1>1, <2>3, <2>4, <2>5, <2>6, <2>7, <2>8, FormKeeps
<1>5. ASSUME form' = [form EXCEPT !.branch = IF @ = Nil THEN Main ELSE @],
             asks' = asks \ {a}, listed' = listed, unsure' = TRUE,
             \/ Posts(a.of, form')
             \/ posted' = posted
      PROVE  PageIInv'
  <2>1. AsksOK'
    BY <1>5, AskAnswered
  <2>2. form' \in FormType
    BY <1>5 DEF FormType
  <2>3. unsure' \in BOOLEAN /\ FormInv'
    BY <1>5 DEF FormInv
  <2>4. posted' \in PostedType /\ PostedAsClicked'
    <3>1. CASE Posts(a.of, form')
      BY <1>3, <1>5, <2>2, <2>3, <3>1, PostsWhat
    <3>2. CASE posted' = posted
      BY <3>2 DEF PostedAsClicked
    <3> QED
      BY <1>5, <3>1, <3>2
  <2>5. listed' \in BOOLEAN /\ linked' \in BOOLEAN /\ commits' \in Refs \cup {Nil}
    BY <1>1, <1>5
  <2> QED
    BY <1>1, <2>1, <2>2, <2>3, <2>4, <2>5, FormKeeps
<1> QED
  BY <1>4, <1>5 DEF Branched

LEMMA CommittedStep == \A a \in asks : PageIInv /\ Committed(a) => PageIInv'
<1> SUFFICES ASSUME PageIInv, NEW a \in asks, Committed(a) PROVE PageIInv'
  OBVIOUS
<1> USE FormTypes
<1>1. FormPart /\ a.kind = "commits" /\ asks' = asks \ {a} /\ listed' = listed /\ linked' = linked
  BY DEF Committed
<1>2. Fits(a) /\ a.of \in Refs \cup {Nil}
  BY <1>1 DEF AsksOK, Fits
<1>3. PICK came \in BOOLEAN :
         /\ commits' = IF came THEN a.of ELSE Nil
         /\ form' = IF came \/ a.then = "release" THEN [form EXCEPT !.commit = a.of] ELSE form
         /\ unsure' = (unsure \/ (~came /\ form.commit \notin {a.of, Nil}))
  BY DEF Committed
<1>4. AsksOK'
  BY <1>1, AskAnswered
<1>5. form' \in FormType /\ form'.branch = form.branch
  <2>1. CASE came \/ a.then = "release"
    BY <1>2, <1>3, <2>1 DEF FormType
  <2>2. CASE ~(came \/ a.then = "release")
    BY <1>3, <2>2
  <2> QED
    BY <2>1, <2>2
<1>6. form'.commit = a.of \/ (~came /\ form'.commit = form.commit)
  <2>1. CASE came \/ a.then = "release"
    BY <1>2, <1>3, <2>1 DEF FormType
  <2>2. CASE ~(came \/ a.then = "release")
    BY <1>3, <2>2
  <2> QED
    BY <2>1, <2>2
<1>7. unsure' \in BOOLEAN
  BY <1>3
<1>8. ~unsure' => asks' = {} /\ form.branch = a.of
  <2>1. ~unsure' => ~unsure
    BY <1>3
  <2>2. ~unsure => asks = {a} /\ form.branch = a.of
    BY <1>1 DEF FormInv, FormPart
  <2> QED
    BY <1>1, <2>1, <2>2
<1>9. ~unsure' => form'.commit \in {Nil, a.of}
  BY <1>3, <1>6
<1>10. commits' \in {Nil, a.of}
  BY <1>3
<1>11. FormInv'
  BY <1>5, <1>8, <1>9, <1>10 DEF FormInv
<1>12. posted' \in PostedType /\ PostedAsClicked'
  <2>1. CASE Posts(a.of, form')
    BY <1>2, <1>5, <1>7, <1>8, <1>9, <2>1, PostsWhat
  <2>2. CASE posted' = posted
    BY <2>2 DEF PostedAsClicked
  <2> QED
    BY <2>1, <2>2 DEF Committed
<1>13. commits' \in Refs \cup {Nil} /\ listed' \in BOOLEAN /\ linked' \in BOOLEAN
  BY <1>1, <1>2, <1>10
<1> QED
  BY <1>1, <1>4, <1>5, <1>7, <1>11, <1>12, <1>13, FormKeeps

LEMMA FormStep == PageIInv /\ FormNext => PageIInv'
BY ChooseBranchStep, ChooseCommitStep, DeployReleaseStep, DeployStep, SaveSettingsStep, BranchedStep,
   CommittedStep DEF FormNext

-----------------------------------------------------------------------------
(* Its list and timers *)

DialogType == [of : Secrets \cup {Nil}, shows : Secrets \cup {Nil}, open : BOOLEAN]
RolledType == [of : Secrets \cup {Nil}, shown : Secrets \cup {Nil}, sure : BOOLEAN]
ModalType == [of : Pods \cup {Nil}, shows : Pods \cup {Nil}, open : BOOLEAN, timer : BOOLEAN]
ListStatuses == {"none", "running", "ended"}

LEMMA PageTypes ==
    ASSUME PageIInv
    PROVE  /\ focus \in {"form", "list", "secrets", "pods"}
           /\ loaded \in BOOLEAN /\ left \in BOOLEAN /\ unsure \in BOOLEAN /\ tab \in BOOLEAN /\ timer \in BOOLEAN
           /\ status \in ListStatuses /\ list \in ListStatuses /\ began \in 0 .. MaxDeploys
           /\ dialog \in DialogType /\ rolled \in RolledType /\ modal \in ModalType
           /\ AsksOK /\ DialogInv /\ PollsInv /\ RolledAsShown
<1>1. AsksOK
  BY AsksAre
<1>2. ProjectPageTypeOK /\ DialogInv /\ PollsInv /\ RolledAsShown
  BY DEF PageIInv
<1>3. {loaded, left, unsure, listed, linked, tab, timer} \subseteq BOOLEAN
  BY <1>2 DEF ProjectPageTypeOK
<1>4. loaded \in BOOLEAN /\ left \in BOOLEAN /\ unsure \in BOOLEAN /\ tab \in BOOLEAN /\ timer \in BOOLEAN
  BY <1>3
<1>5. /\ focus \in {"form", "list", "secrets", "pods"}
      /\ status \in ListStatuses /\ list \in ListStatuses /\ began \in 0 .. MaxDeploys
      /\ dialog \in DialogType /\ rolled \in RolledType /\ modal \in ModalType
  BY <1>2 DEF ProjectPageTypeOK, ListStatuses, DialogType, RolledType, ModalType
<1> QED
  BY <1>1, <1>2, <1>4, <1>5

\* What the parts beside the form change.
LEMMA PartKeeps ==
    ASSUME PageIInv, UNCHANGED <<focus, formVars>>, focus # "form", AsksOK',
           loaded' \in BOOLEAN, left' \in BOOLEAN, unsure' \in BOOLEAN,
           status' \in ListStatuses, list' \in ListStatuses, began' \in 0 .. MaxDeploys,
           tab' \in BOOLEAN, timer' \in BOOLEAN,
           dialog' \in DialogType, rolled' \in RolledType, modal' \in ModalType,
           DialogInv', PollsInv', RolledAsShown'
    PROVE  PageIInv'
<1> USE DEF formVars
<1>1. ProjectPageTypeOK'
  <2>1. /\ focus' \in {"form", "list", "secrets", "pods"}
        /\ (form \in [branch : Refs \cup {Nil}, commit : Refs \cup {Nil}])'
        /\ commits' \in Refs \cup {Nil}
        /\ (posted \in [clicked : Refs \cup {Nil}, branch : Refs \cup {Nil}, commit : Refs \cup {Nil}, sure : BOOLEAN])'
    BY DEF PageIInv, ProjectPageTypeOK
  <2>2. {listed, linked} \subseteq BOOLEAN
    BY DEF PageIInv, ProjectPageTypeOK
  <2>3. {loaded, left, unsure, listed, linked, tab, timer}' \subseteq BOOLEAN
    <3>1. listed' \in BOOLEAN /\ linked' \in BOOLEAN
      BY <2>2
    <3> QED
      BY <3>1
  <2>4. asks' \subseteq AskType /\ Cardinality(asks') <= MaxAsks
    BY DEF AsksOK, Fits
  <2>5. {status, list}' \subseteq ListStatuses
    OBVIOUS
  <2> QED
    BY <2>1, <2>3, <2>4, <2>5 DEF ProjectPageTypeOK, AskType, DialogType, RolledType, ModalType, ListStatuses
<1>2. AsksInv'
  BY DEF AsksOK, Fits, AsksInv
<1>3. FormInv' /\ PostedAsClicked'
  BY DEF PageIInv, FormInv, PostedAsClicked
<1> QED
  BY <1>1, <1>2, <1>3 DEF PageIInv

\* Beside its timers and its list nothing of the list's part changes.
LEMMA ListKeeps ==
    ASSUME PageIInv, ListPart, AsksOK', loaded' \in BOOLEAN, left' = left,
           status' \in ListStatuses, list' \in ListStatuses, began' \in 0 .. MaxDeploys,
           tab' \in BOOLEAN,
           timer' = timer \/ (~loaded /\ loaded' /\ timer' = TRUE),
           loaded => loaded',
           \A a \in asks' : a \in asks \/ a.then # "start"
    PROVE  PageIInv'
<1> USE PageTypes DEF ListPart, dialogVars
<1>1. timer' \in BOOLEAN /\ unsure' \in BOOLEAN /\ left' \in BOOLEAN
  OBVIOUS
<1>2. dialog' \in DialogType /\ rolled' \in RolledType /\ modal' \in ModalType
  OBVIOUS
<1>3. DialogInv' /\ RolledAsShown'
  BY DEF DialogInv, RolledAsShown
<1>4. PollsInv'
  <2>1. (modal.timer => modal.open)' \/ unsure
    BY DEF PollsInv
  <2>2. (timer \/ modal.timer => ~left)' \/ unsure
    BY DEF PollsInv
  <2>3. (left => loaded)' \/ unsure
    BY DEF PollsInv
  <2>4. (\A a \in asks : a.then = "start" => modal.open /\ ~left)' \/ unsure
    BY DEF PollsInv
  <2> QED
    BY <2>1, <2>2, <2>3, <2>4 DEF PollsInv
<1> QED
  BY <1>1, <1>2, <1>3, <1>4, PartKeeps

LEMMA ListAskFits ==
    ASSUME NEW t \in {"unread", "none", "running", "ended"}
    PROVE  /\ Fits(Ask("list", Nil, t)) /\ Ask("list", Nil, t).kind = "list"
           /\ Ask("list", Nil, t).then = t
<1>1. Ask("list", Nil, t) \in AskType /\ Ask("list", Nil, t).kind = "list" /\ Ask("list", Nil, t).then = t
  BY DEF Ask, AskType, AskKinds, Thens
<1> QED
  BY <1>1 DEF Fits

\* The list is asked for, or nothing is.
LEMMA ListAsked ==
    ASSUME PageIInv, Sent({AskList}) \/ asks' = asks
    PROVE  AsksOK' /\ \A a \in asks' : a \in asks \/ a.then # "start"
<1>1. AsksOK
  BY AsksAre
<1>2. Fits(AskList) /\ AskList.then = "unread"
  BY ListAskFits DEF AskList
<1>3. CASE Sent({AskList})
  <2>1. AsksOK'
    BY <1>1, <1>2, <1>3, AskSent
  <2>2. asks' = asks \cup {AskList}
    BY <1>3 DEF Sent
  <2> QED
    BY <1>2, <2>1, <2>2
<1>4. CASE asks' = asks
  BY <1>1, <1>4 DEF AsksOK
<1> QED
  BY <1>3, <1>4

LEMMA ListStep == PageIInv /\ ListNext => PageIInv'
<1> SUFFICES ASSUME PageIInv, ListNext PROVE PageIInv'
  OBVIOUS
<1> USE PageTypes
<1>1. CASE PageLoaded
  <2>1. asks' = asks
    BY <1>1 DEF PageLoaded
  <2>2. AsksOK' /\ \A a \in asks' : a \in asks \/ a.then # "start"
    BY <2>1, ListAsked
  <2>3. /\ ListPart /\ ~loaded /\ loaded' = TRUE /\ list' = status /\ timer' = TRUE
        /\ left' = left /\ status' = status /\ began' = began /\ tab' = tab
    BY <1>1 DEF PageLoaded
  <2>4. list' \in ListStatuses /\ status' \in ListStatuses /\ tab' \in BOOLEAN /\ loaded' \in BOOLEAN /\ began' \in 0 .. MaxDeploys
    BY <2>3
  <2> QED
    BY <2>2, <2>3, <2>4, ListKeeps
<1>2. CASE DeployBegins
  <2>1. Sent({AskList}) \/ asks' = asks
    BY <1>2 DEF DeployBegins
  <2>2. AsksOK' /\ \A a \in asks' : a \in asks \/ a.then # "start"
    BY <2>1, ListAsked
  <2>3. /\ ListPart /\ status' = "running" /\ began' = began + 1 /\ began < MaxDeploys
        /\ (tab' = TRUE \/ tab' = tab) /\ loaded' = loaded /\ left' = left /\ list' = list /\ timer' = timer
    BY <1>2 DEF DeployBegins
  <2>4. began' \in 0 .. MaxDeploys
    BY <2>3, ProjectPageAssumption
  <2>5. tab' \in BOOLEAN
    BY <2>3
  <2>6. loaded' \in BOOLEAN /\ status' \in ListStatuses /\ list' \in ListStatuses
    BY <2>3 DEF ListStatuses
  <2> QED
    BY <2>2, <2>3, <2>4, <2>5, <2>6, ListKeeps
<1>3. CASE Finishes
  <2>1. asks' = asks
    BY <1>3 DEF Finishes
  <2>2. AsksOK' /\ \A a \in asks' : a \in asks \/ a.then # "start"
    BY <2>1, ListAsked
  <2>3. /\ ListPart /\ status' = "ended" /\ began' = began /\ tab' = tab
        /\ loaded' = loaded /\ left' = left /\ list' = list /\ timer' = timer
    BY <1>3 DEF Finishes
  <2>4. loaded' \in BOOLEAN /\ status' \in ListStatuses /\ list' \in ListStatuses /\ tab' \in BOOLEAN /\ began' \in 0 .. MaxDeploys
    BY <2>3 DEF ListStatuses
  <2> QED
    BY <2>2, <2>3, <2>4, ListKeeps
<1>4. CASE SwitchTab
  <2>1. Sent({AskList}) \/ asks' = asks
    BY <1>4 DEF SwitchTab
  <2>2. AsksOK' /\ \A a \in asks' : a \in asks \/ a.then # "start"
    BY <2>1, ListAsked
  <2>3. /\ ListPart /\ status' = status /\ began' = began
        /\ loaded' = loaded /\ left' = left /\ list' = list /\ timer' = timer
    BY <1>4 DEF SwitchTab
  <2>4. tab' \in BOOLEAN
    BY <1>4 DEF SwitchTab
  <2>5. loaded' \in BOOLEAN /\ status' \in ListStatuses /\ list' \in ListStatuses /\ began' \in 0 .. MaxDeploys
    BY <2>3
  <2> QED
    BY <2>2, <2>3, <2>4, <2>5, ListKeeps
<1>5. CASE PollData
  <2>1. Sent({AskList})
    BY <1>5 DEF PollData
  <2>2. AsksOK' /\ \A a \in asks' : a \in asks \/ a.then # "start"
    BY <2>1, ListAsked
  <2>3. /\ ListPart /\ status' = status /\ began' = began /\ tab' = tab
        /\ loaded' = loaded /\ left' = left /\ list' = list /\ timer' = timer
    BY <1>5 DEF PollData, listVars
  <2>5. tab' \in BOOLEAN /\ loaded' \in BOOLEAN /\ status' \in ListStatuses /\ list' \in ListStatuses /\ began' \in 0 .. MaxDeploys
    BY <2>3
  <2> QED
    BY <2>2, <2>3, <2>5, ListKeeps
<1>6. ASSUME NEW a \in asks, ReadList(a) PROVE PageIInv'
  <2> DEFINE b == [a EXCEPT !.then = status]
  <2>1. a = Ask("list", Nil, "unread") /\ asks' = (asks \ {a}) \cup {b}
    BY <1>6 DEF ReadList, AskList
  <2>2. b = Ask("list", Nil, status)
    BY <2>1 DEF Ask
  <2>3. status \in {"none", "running", "ended"}
    BY DEF ListStatuses
  <2>4. Fits(b) /\ b.then # "start"
    BY <2>2, <2>3, ListAskFits
  <2> HIDE DEF b
  <2>5. AsksOK'
    BY <2>1, <2>4, AskFollowed
  <2>6. \A x \in asks' : x \in asks \/ x.then # "start"
    BY <2>1, <2>4
  <2>7. /\ ListPart /\ status' = status /\ began' = began /\ tab' = tab
        /\ loaded' = loaded /\ left' = left /\ list' = list /\ timer' = timer
    BY <1>6 DEF ReadList, listVars
  <2>8. tab' \in BOOLEAN /\ loaded' \in BOOLEAN /\ status' \in ListStatuses /\ list' \in ListStatuses /\ began' \in 0 .. MaxDeploys
    BY <2>7
  <2> QED
    BY <2>5, <2>6, <2>7, <2>8, ListKeeps
<1>7. ASSUME NEW a \in asks, ShowList(a) PROVE PageIInv'
  <2>1. asks' = asks \ {a}
    BY <1>7 DEF ShowList
  <2>2. AsksOK'
    BY <2>1, AskAnswered
  <2>3. a.then \in ListStatuses
    BY <1>7 DEF ShowList, AsksOK, Fits, ListStatuses
  <2>4. \A x \in asks' : x \in asks \/ x.then # "start"
    BY <2>1
  <2>7. /\ ListPart /\ status' = status /\ began' = began /\ tab' = tab
        /\ loaded' = loaded /\ left' = left /\ list' = a.then /\ timer' = timer
    BY <1>7 DEF ShowList
  <2>8. tab' \in BOOLEAN /\ loaded' \in BOOLEAN /\ status' \in ListStatuses /\ list' \in ListStatuses /\ began' \in 0 .. MaxDeploys
    BY <2>3, <2>7
  <2> QED
    BY <2>2, <2>4, <2>7, <2>8, ListKeeps
<1> QED
  BY <1>1, <1>2, <1>3, <1>4, <1>5, <1>6, <1>7 DEF ListNext

-----------------------------------------------------------------------------
(* Its dialogs *)

LEMMA DialogKeeps ==
    ASSUME PageIInv, DialogPart, AsksOK', unsure' \in BOOLEAN, dialog' \in DialogType,
           rolled' \in RolledType, DialogInv', RolledAsShown'
    PROVE  PageIInv'
<1> USE PageTypes DEF DialogPart, listVars
<1>1. loaded' \in BOOLEAN /\ left' \in BOOLEAN /\ tab' \in BOOLEAN /\ timer' \in BOOLEAN /\ began' \in 0 .. MaxDeploys
  OBVIOUS
<1>2. status' \in ListStatuses /\ list' \in ListStatuses /\ modal' \in ModalType
  OBVIOUS
<1>3. PollsInv'
  BY DEF PollsInv
<1>4. UNCHANGED <<focus, formVars>> /\ focus # "form"
  OBVIOUS
<1> QED
  BY <1>1, <1>2, <1>3, <1>4, PartKeeps

LEMMA DialogStep == PageIInv /\ DialogNext => PageIInv'
<1> SUFFICES ASSUME PageIInv, DialogNext PROVE PageIInv'
  OBVIOUS
<1> USE PageTypes
<1>1. CASE ShowVersions
  <2>1. PICK s \in Secrets : dialog' = [dialog EXCEPT !.of = s] /\ Sent({Ask("versions", s, "nothing")})
    BY <1>1 DEF ShowVersions
  <2> DEFINE a == Ask("versions", s, "nothing")
  <2>2. Fits(a) /\ a.of = s
    <3>1. a \in AskType /\ a.kind = "versions" /\ a.of = s
      BY DEF Ask, AskType, AskKinds, Thens
    <3> HIDE DEF a
    <3> QED
      BY <3>1 DEF Fits
  <2>3. Sent({a})
    BY <2>1
  <2> HIDE DEF a
  <2>4. AsksOK' /\ asks' = asks \cup {a}
    BY <2>2, <2>3, AskSent DEF Sent
  <2>5. dialog' \in DialogType /\ dialog'.of = s /\ dialog'.open = dialog.open
    BY <2>1 DEF DialogType
  <2>6. DialogPart /\ ~dialog.open /\ unsure' = (asks # {}) /\ rolled' = rolled
    BY <1>1 DEF ShowVersions
  <2>7. DialogInv'
    BY <2>2, <2>4, <2>5, <2>6 DEF DialogInv
  <2>8. unsure' \in BOOLEAN /\ rolled' \in RolledType /\ RolledAsShown'
    BY <2>6 DEF RolledAsShown
  <2> QED
    BY <2>4, <2>5, <2>6, <2>7, <2>8, DialogKeeps
<1>2. ASSUME NEW a \in asks, VersionsShown(a) PROVE PageIInv'
  <2>1. /\ DialogPart /\ a.kind = "versions" /\ asks' = asks \ {a}
        /\ dialog' = [dialog EXCEPT !.shows = a.of, !.open = TRUE]
        /\ rolled' = rolled /\ unsure' = unsure
    BY <1>2 DEF VersionsShown
  <2>2. AsksOK'
    BY <2>1, AskAnswered
  <2>3. a.of \in Secrets
    BY <2>1 DEF AsksOK, Fits
  <2>4. dialog' \in DialogType /\ dialog'.of = dialog.of /\ dialog'.shows = a.of
    BY <2>1, <2>3 DEF DialogType
  <2>5. DialogInv'
    <3>1. ~unsure => asks = {a} /\ a.of = dialog.of
      BY <2>1 DEF DialogInv, DialogPart
    <3> QED
      BY <2>1, <2>4, <3>1 DEF DialogInv
  <2>6. unsure' \in BOOLEAN /\ rolled' \in RolledType /\ RolledAsShown'
    BY <2>1 DEF RolledAsShown
  <2> QED
    BY <2>1, <2>2, <2>4, <2>5, <2>6, DialogKeeps
<1>3. ASSUME NEW a \in asks, VersionsFailed(a) PROVE PageIInv'
  <2>1. /\ DialogPart /\ asks' = asks \ {a} /\ dialog' = dialog /\ rolled' = rolled /\ unsure' = unsure
    BY <1>3 DEF VersionsFailed
  <2>2. AsksOK'
    BY <2>1, AskAnswered
  <2>3. DialogInv'
    BY <2>1 DEF DialogInv, DialogPart
  <2>4. unsure' \in BOOLEAN /\ dialog' \in DialogType /\ rolled' \in RolledType /\ RolledAsShown'
    BY <2>1 DEF RolledAsShown
  <2> QED
    BY <2>1, <2>2, <2>3, <2>4, DialogKeeps
<1>4. CASE CloseVersions
  <2>1. /\ DialogPart /\ asks' = asks /\ dialog' = [dialog EXCEPT !.open = FALSE]
        /\ rolled' = rolled /\ unsure' = unsure
    BY <1>4 DEF CloseVersions
  <2>2. AsksOK'
    BY <2>1 DEF AsksOK
  <2>3. dialog' \in DialogType /\ dialog'.of = dialog.of /\ dialog'.shows = dialog.shows /\ ~dialog'.open
    BY <2>1 DEF DialogType
  <2>4. DialogInv'
    BY <2>1, <2>3 DEF DialogInv, DialogPart
  <2>5. unsure' \in BOOLEAN /\ rolled' \in RolledType /\ RolledAsShown'
    BY <2>1 DEF RolledAsShown
  <2> QED
    BY <2>1, <2>2, <2>3, <2>4, <2>5, DialogKeeps
<1>5. CASE RollbackToVersion
  <2>1. /\ DialogPart /\ dialog.open /\ asks' = asks /\ unsure' = unsure
        /\ rolled' = [of |-> dialog.of, shown |-> dialog.shows, sure |-> ~unsure]
    BY <1>5 DEF RollbackToVersion
  <2>2. PICK ok \in BOOLEAN : dialog' = [dialog EXCEPT !.open = ~ok]
    BY <1>5 DEF RollbackToVersion
  <2>3. AsksOK'
    BY <2>1 DEF AsksOK
  <2>4. dialog' \in DialogType /\ dialog'.of = dialog.of /\ dialog'.shows = dialog.shows
    BY <2>2 DEF DialogType
  <2>5. ~unsure => dialog.of = dialog.shows /\ asks = {}
    BY <2>1 DEF DialogInv, DialogPart
  <2>6. DialogInv'
    BY <2>1, <2>4, <2>5 DEF DialogInv
  <2>7. RolledAsShown'
    <3>1. rolled'.of = dialog.of /\ rolled'.shown = dialog.shows
      BY <2>1
    <3>2. rolled'.sure => ~unsure
      BY <2>1
    <3> QED
      BY <2>5, <3>1, <3>2 DEF RolledAsShown
  <2>8. rolled' \in RolledType
    <3>1. dialog.of \in Secrets \cup {Nil} /\ dialog.shows \in Secrets \cup {Nil} /\ (~unsure) \in BOOLEAN
      BY DEF DialogType
    <3> QED
      BY <2>1, <3>1 DEF RolledType
  <2>9. unsure' \in BOOLEAN
    BY <2>1
  <2> QED
    BY <2>1, <2>3, <2>4, <2>6, <2>7, <2>8, <2>9, DialogKeeps
<1> QED
  BY <1>1, <1>2, <1>3, <1>4, <1>5 DEF DialogNext

LEMMA ModalKeeps ==
    ASSUME PageIInv, ModalPart, AsksOK', left' = left, unsure' \in BOOLEAN, modal' \in ModalType, PollsInv'
    PROVE  PageIInv'
<1> USE PageTypes DEF ModalPart, listVars, dialogVars
<1>1. loaded' \in BOOLEAN /\ left' \in BOOLEAN /\ tab' \in BOOLEAN /\ timer' \in BOOLEAN /\ began' \in 0 .. MaxDeploys
  OBVIOUS
<1>2. status' \in ListStatuses /\ list' \in ListStatuses /\ dialog' \in DialogType /\ rolled' \in RolledType
  OBVIOUS
<1>3. DialogInv' /\ RolledAsShown'
  BY DEF DialogInv, RolledAsShown
<1>4. UNCHANGED <<focus, formVars>> /\ focus # "form"
  OBVIOUS
<1> QED
  BY <1>1, <1>2, <1>3, <1>4, PartKeeps

LEMMA LogsFit ==
    ASSUME NEW p \in Pods \cup {Nil}, NEW t \in Thens
    PROVE  Fits(Ask("logs", p, t)) /\ Ask("logs", p, t).then = t
<1> DEFINE a == Ask("logs", p, t)
<1>1. a \in AskType /\ a.kind = "logs" /\ a.of = p /\ a.then = t
  BY DEF Ask, AskType, AskKinds
<1> HIDE DEF a
<1>2. Fits(a) /\ a.then = t
  BY <1>1 DEF Fits
<1> QED
  BY <1>2 DEF a

LEMMA ModalStep == PageIInv /\ ModalNext => PageIInv'
<1> SUFFICES ASSUME PageIInv, ModalNext PROVE PageIInv'
  OBVIOUS
<1> USE PageTypes
<1>1. CASE OpenPodLogs
  <2>1. PICK p \in Pods :
           /\ modal' = [modal EXCEPT !.of = p, !.shows = Nil, !.open = TRUE]
           /\ Sent({Ask("logs", p, "start")})
    BY <1>1 DEF OpenPodLogs
  <2>2. Fits(Ask("logs", p, "start"))
    <3>1. "start" \in Thens
      BY DEF Thens
    <3> QED
      BY <3>1, LogsFit
  <2>3. AsksOK'
    BY <2>1, <2>2, AskSent
  <2>4. modal' \in ModalType /\ modal'.open = TRUE /\ modal'.timer = modal.timer
    BY <2>1 DEF ModalType
  <2>5. ModalPart /\ ~left /\ left' = left /\ unsure' = unsure
    BY <1>1 DEF OpenPodLogs
  <2>6. PollsInv'
    BY <2>4, <2>5 DEF PollsInv, ModalPart, listVars
  <2> QED
    BY <2>3, <2>4, <2>5, <2>6, ModalKeeps
<1>2. CASE LogPoll
  <2> DEFINE a == Ask("logs", modal.of, "nothing")
  <2>1. ModalPart /\ modal.timer /\ Sent({a}) /\ left' = left /\ unsure' = unsure /\ modal' = modal
    BY <1>2 DEF LogPoll
  <2>2. Fits(a) /\ a.then = "nothing"
    <3>1. "nothing" \in Thens
      BY DEF Thens
    <3>2. modal.of \in Pods \cup {Nil}
      BY DEF ModalType
    <3> QED
      BY <3>1, <3>2, LogsFit
  <2> HIDE DEF a
  <2>3. AsksOK' /\ asks' = asks \cup {a}
    BY <2>1, <2>2, AskSent DEF Sent
  <2>4. PollsInv'
    BY <2>1, <2>2, <2>3 DEF PollsInv, ModalPart, listVars
  <2> QED
    BY <2>1, <2>3, <2>4, ModalKeeps
<1>3. ASSUME NEW a \in asks, LogsShown(a) PROVE PageIInv'
  <2>1. /\ ModalPart /\ a.kind = "logs" /\ asks' = asks \ {a} /\ left' = left /\ unsure' = unsure
        /\ modal' = [modal EXCEPT !.shows = a.of, !.timer = @ \/ a.then = "start"]
    BY <1>3 DEF LogsShown
  <2>2. AsksOK'
    BY <2>1, AskAnswered
  <2>3. a.of \in Pods \cup {Nil}
    BY <2>1 DEF AsksOK, Fits
  <2>4. (modal.timer \/ a.then = "start") \in BOOLEAN
    OBVIOUS
  <2>5. modal' \in ModalType /\ modal'.open = modal.open
    BY <2>1, <2>3, <2>4 DEF ModalType
  <2>6. modal'.timer => modal.timer \/ a.then = "start"
    BY <2>1 DEF ModalType
  <2>7. PollsInv'
    BY <2>1, <2>5, <2>6 DEF PollsInv, ModalPart, listVars
  <2> QED
    BY <2>1, <2>2, <2>5, <2>7, ModalKeeps
<1>4. CASE CloseLogs
  <2>1. /\ ModalPart /\ modal' = [modal EXCEPT !.open = FALSE, !.timer = FALSE]
        /\ unsure' = (unsure \/ Starting) /\ left' = left /\ asks' = asks
    BY <1>4 DEF CloseLogs
  <2>2. AsksOK'
    BY <2>1 DEF AsksOK
  <2>3. modal' \in ModalType /\ ~modal'.open /\ ~modal'.timer
    BY <2>1 DEF ModalType
  <2>4. PollsInv'
    BY <2>1, <2>3 DEF PollsInv, ModalPart, listVars, Starting
  <2>5. unsure' \in BOOLEAN
    BY <2>1
  <2> QED
    BY <2>1, <2>2, <2>3, <2>4, <2>5, ModalKeeps
<1> QED
  BY <1>1, <1>2, <1>3, <1>4 DEF ModalNext

LEMMA LeaveStep == PageIInv /\ Leave => PageIInv'
<1> SUFFICES ASSUME PageIInv, Leave PROVE PageIInv'
  OBVIOUS
<1> USE PageTypes
<1>1. /\ focus \in {"list", "pods"} /\ ~left /\ left' = TRUE
      /\ timer' = FALSE /\ modal' = [modal EXCEPT !.open = FALSE, !.timer = FALSE]
      /\ unsure' = (unsure \/ (focus = "list" /\ ~loaded) \/ Starting)
      /\ UNCHANGED <<focus, loaded, asks, formVars, status, began, list, tab, dialogVars>>
  BY DEF Leave
<1>2. AsksOK'
  BY <1>1 DEF AsksOK
<1>3. modal' \in ModalType /\ ~modal'.open /\ ~modal'.timer
  BY <1>1 DEF ModalType
<1>4. PollsInv'
  BY <1>1, <1>3 DEF PollsInv, Starting
<1>5. DialogInv' /\ RolledAsShown'
  BY <1>1 DEF DialogInv, RolledAsShown, dialogVars
<1>6. loaded' \in BOOLEAN /\ left' \in BOOLEAN /\ tab' \in BOOLEAN /\ timer' \in BOOLEAN /\ began' \in 0 .. MaxDeploys
  BY <1>1
<1>7. status' \in ListStatuses /\ list' \in ListStatuses /\ dialog' \in DialogType /\ rolled' \in RolledType
  BY <1>1 DEF dialogVars
<1>8. unsure' \in BOOLEAN
  BY <1>1
<1>9. UNCHANGED <<focus, formVars>> /\ focus # "form"
  BY <1>1
<1> QED
  BY <1>2, <1>3, <1>4, <1>5, <1>6, <1>7, <1>8, <1>9, PartKeeps

LEMMA PageStep == PageIInv /\ PageNext => PageIInv'
BY FormStep, ListStep, DialogStep, ModalStep, LeaveStep DEF PageNext

-----------------------------------------------------------------------------
(* The captures of the bug reporters *)

CaptureTypes ==
    /\ console \in Seq(Reporters) /\ found \in [Reporters -> Seq(Reporters)]
    /\ life \in [Reporters -> {"new", "made", "mounted", "gone"}] /\ nested \in BOOLEAN
    /\ printed \in 0 .. MaxPrinted /\ since \in [Reporters -> 0 .. MaxPrinted]
    /\ consoleLogs \in [Reporters -> Seq(1 .. MaxPrinted)]
    /\ \A w \in Reporters : Len(consoleLogs[w]) <= Kept

\* Of p entries, the last that a reporter has not kept if s were printed before it came; those after it.
Until(p, s) == IF p - Kept > s THEN p - Kept ELSE s
Since(p, s) == [i \in 1 .. p - Until(p, s) |-> Until(p, s) + i]

\* While they come and go in order, those in the page are in the console once, each has found what
\* is behind it, and has kept the last entries; one that has not come has none.
StackInv ==
    /\ \A i, j \in 1 .. Len(console) : console[i] = console[j] => i = j
    /\ \A i \in 1 .. Len(console) :
          /\ Len(found[console[i]]) = Len(console) - i
          /\ \A k \in 1 .. Len(console) - i : found[console[i]][k] = console[i + k]
          /\ consoleLogs[console[i]] = Since(printed, since[console[i]])
    /\ \A w \in Reporters :
          /\ life[w] = "mounted" <=> \E i \in 1 .. Len(console) : console[i] = w
          /\ life[w] \in {"new", "made"} => consoleLogs[w] = <<>>

CaptureIInv ==
    /\ CaptureTypes /\ (nested => StackInv)
    /\ \A w \in Reporters : since[w] <= printed

\* Nothing has been printed since a reporter that comes now.
LEMMA SinceNow ==
    ASSUME NEW p \in Nat
    PROVE  Since(p, p) = <<>>
<1>1. Until(p, p) = p
  BY ReporterAssumption DEF Until
<1>2. 1 .. p - p = {}
  OBVIOUS
<1>3. Since(p, p) = [i \in {} |-> Until(p, p) + i]
  BY <1>1, <1>2 DEF Since
<1> QED
  BY <1>3

\* The maximum in NestedCapture.
LEMMA UntilIs ==
    ASSUME CaptureTypes, NEW w \in Reporters
    PROVE  Max({since[w], printed - Kept} \cap Nat) = Until(printed, since[w]) /\ Until(printed, since[w]) \in Nat
<1> DEFINE M == {since[w], printed - Kept} \cap Nat
<1>1. since[w] \in Nat /\ printed \in Nat /\ Kept \in Nat
  BY ReporterAssumption DEF CaptureTypes
<1>2. printed - Kept \in Int
  BY <1>1
<1>3. Until(printed, since[w]) \in M /\ \A y \in M : Until(printed, since[w]) >= y
  BY <1>1, <1>2 DEF Until
<1>4. \A x \in M : (\A y \in M : x >= y) => x = Until(printed, since[w])
  <2>1. \A x \in M : x \in Nat
    OBVIOUS
  <2> HIDE DEF M
  <2> QED
    BY <1>3, <2>1
<1>5. Max(M) = Until(printed, since[w])
  <2> HIDE DEF M
  <2> QED
    BY <1>3, <1>4 DEF Max
<1> QED
  BY <1>3, <1>5

LEMMA CaptureSound == CaptureIInv => NestedCapture
<1> SUFFICES ASSUME CaptureIInv, nested
             PROVE  /\ ToSet(console) = {w \in Reporters : life[w] = "mounted"}
                    /\ \A w \in ToSet(console) :
                          consoleLogs[w] = LET first == Max({since[w], printed - Kept} \cap Nat)
                                           IN  [i \in 1 .. printed - first |-> first + i]
  BY DEF NestedCapture
<1>1. CaptureTypes /\ StackInv
  BY DEF CaptureIInv
<1>2. \A x : x \in ToSet(console) <=> \E i \in 1 .. Len(console) : console[i] = x
  <2>1. console \in Seq(Reporters)
    BY <1>1 DEF CaptureTypes
  <2>2. DOMAIN console = 1 .. Len(console)
    BY <2>1
  <2> QED
    BY <2>2 DEF ToSet
<1>3. \A i \in 1 .. Len(console) : console[i] \in Reporters
  BY <1>1 DEF CaptureTypes
<1>4. ToSet(console) = {w \in Reporters : life[w] = "mounted"}
  BY <1>1, <1>2, <1>3 DEF StackInv
<1>5. ASSUME NEW w \in ToSet(console)
      PROVE  consoleLogs[w] = LET first == Max({since[w], printed - Kept} \cap Nat)
                              IN  [i \in 1 .. printed - first |-> first + i]
  <2>1. w \in Reporters
    BY <1>2, <1>3, <1>5
  <2>2. consoleLogs[w] = Since(printed, since[w])
    BY <1>1, <1>2, <1>5 DEF StackInv
  <2>3. Max({since[w], printed - Kept} \cap Nat) = Until(printed, since[w])
    BY <1>1, <2>1, UntilIs
  <2> QED
    BY <2>2, <2>3 DEF Since
<1> QED
  BY <1>4, <1>5

LEMMA CaptureInit == ReporterInit => CaptureIInv
<1> SUFFICES ASSUME ReporterInit PROVE CaptureIInv
  OBVIOUS
<1>1. console = <<>> /\ Len(console) = 0
  BY DEF ReporterInit
<1>2. /\ found = [w \in Reporters |-> <<>>] /\ life = [w \in Reporters |-> "new"]
      /\ printed = 0 /\ since = [w \in Reporters |-> 0] /\ consoleLogs = [w \in Reporters |-> <<>>] /\ nested = TRUE
  BY DEF ReporterInit
<1>3. 0 \in 0 .. MaxPrinted
  BY ReporterAssumption
<1>4. CaptureTypes
  <2>1. \A w \in Reporters : Len(consoleLogs[w]) <= Kept
    BY <1>2, ReporterAssumption
  <2> QED
    BY <1>1, <1>2, <1>3, <2>1 DEF CaptureTypes
<1>5. StackInv
  BY <1>1, <1>2 DEF StackInv
<1> QED
  BY <1>2, <1>4, <1>5 DEF CaptureIInv

LEMMA ConstructStep == \A w \in Reporters : CaptureIInv /\ Construct(w) => CaptureIInv'
<1> SUFFICES ASSUME CaptureIInv, NEW w \in Reporters, Construct(w) PROVE CaptureIInv'
  OBVIOUS
<1>1. /\ life[w] = "new" /\ life' = [life EXCEPT ![w] = "made"] /\ found' = [found EXCEPT ![w] = console]
      /\ console' = console /\ printed' = printed /\ since' = since
      /\ consoleLogs' = consoleLogs /\ nested' = nested
  BY DEF Construct
<1>2. CaptureTypes /\ \A v \in Reporters : since[v] <= printed
  BY DEF CaptureIInv
<1>3. CaptureTypes'
  <2>1. /\ found' \in [Reporters -> Seq(Reporters)]
        /\ life' \in [Reporters -> {"new", "made", "mounted", "gone"}]
    BY <1>1, <1>2 DEF CaptureTypes
  <2> QED
    BY <1>1, <1>2, <2>1 DEF CaptureTypes
<1>4. ASSUME nested PROVE StackInv'
  <2>1. StackInv
    BY <1>4 DEF CaptureIInv
  <2>2. ASSUME NEW i \in 1 .. Len(console) PROVE console[i] \in Reporters \ {w}
    <3>1. console[i] \in Reporters
      BY <1>2 DEF CaptureTypes
    <3>2. life[console[i]] = "mounted"
      BY <2>1, <3>1 DEF StackInv
    <3> QED
      BY <1>1, <3>1, <3>2
  <2>3. \A v \in Reporters \ {w} : found'[v] = found[v] /\ life'[v] = life[v]
    BY <1>1, <1>2 DEF CaptureTypes
  <2>4. ASSUME NEW i \in 1 .. Len(console)
        PROVE  /\ Len(found'[console[i]]) = Len(console) - i
               /\ \A k \in 1 .. Len(console) - i : found'[console[i]][k] = console[i + k]
               /\ consoleLogs[console[i]] = Since(printed, since[console[i]])
    <3>1. found'[console[i]] = found[console[i]]
      BY <2>2, <2>3
    <3>2. /\ Len(found[console[i]]) = Len(console) - i
          /\ \A k \in 1 .. Len(console) - i : found[console[i]][k] = console[i + k]
          /\ consoleLogs[console[i]] = Since(printed, since[console[i]])
      BY <2>1 DEF StackInv
    <3> QED
      BY <3>1, <3>2, Zenon
  <2>5. life'[w] = "made" /\ consoleLogs[w] = <<>>
    BY <1>1, <1>2, <2>1 DEF CaptureTypes, StackInv
  <2>6. ASSUME NEW v \in Reporters
        PROVE  /\ life'[v] = "mounted" <=> \E i \in 1 .. Len(console) : console[i] = v
               /\ life'[v] \in {"new", "made"} => consoleLogs[v] = <<>>
    <3>1. CASE v = w
      BY <2>2, <2>5, <3>1
    <3>2. CASE v # w
      BY <2>1, <2>3, <3>2 DEF StackInv
    <3> QED
      BY <3>1, <3>2
  <2> QED
    BY <1>1, <2>1, <2>4, <2>6 DEF StackInv
<1> QED
  BY <1>1, <1>2, <1>3, <1>4 DEF CaptureIInv

\* A reporter replaces the console: in order, if what it puts back is what it has replaced.
LEMMA Comes ==
    ASSUME CaptureIInv, NEW w \in Reporters, life[w] \in {"new", "made"},
           life' = [life EXCEPT ![w] = "mounted"], since' = [since EXCEPT ![w] = printed],
           printed' = printed, consoleLogs' = consoleLogs, nested' \in BOOLEAN,
           console' \in Seq(Reporters), found' \in [Reporters -> Seq(Reporters)],
           nested' => nested /\ found' = [found EXCEPT ![w] = console] /\ console' = <<w>> \o console
    PROVE  CaptureIInv'
<1>2. CaptureTypes /\ \A v \in Reporters : since[v] <= printed
  BY DEF CaptureIInv
<1>3. console \in Seq(Reporters) /\ printed \in 0 .. MaxPrinted
  BY <1>2 DEF CaptureTypes
<1>5. CaptureTypes'
  <2>1. life' \in [Reporters -> {"new", "made", "mounted", "gone"}] /\ since' \in [Reporters -> 0 .. MaxPrinted]
    BY <1>2 DEF CaptureTypes
  <2> QED
    BY <1>2, <2>1 DEF CaptureTypes
<1>6. \A v \in Reporters : since'[v] <= printed'
  BY <1>2, <1>3 DEF CaptureTypes
<1>7. ASSUME nested' PROVE StackInv'
  <2>1. StackInv
    BY <1>7 DEF CaptureIInv
  <2> DEFINE found_w == [found EXCEPT ![w] = console]
  <2>11. found' = found_w /\ console' = <<w>> \o console
    BY <1>7
  <2> HIDE DEF found_w
  <2>2. /\ Len(console') = Len(console) + 1 /\ console'[1] = w /\ Len(console) \in Nat
        /\ \A i \in 1 .. Len(console) : console'[i + 1] = console[i]
    BY <1>3, <2>11
  <2>3. \A i \in 1 .. Len(console) : console[i] \in Reporters /\ console[i] # w
    <3> SUFFICES ASSUME NEW i \in 1 .. Len(console) PROVE console[i] \in Reporters /\ console[i] # w
      OBVIOUS
    <3>1. console[i] \in Reporters
      BY <1>3
    <3>2. life[console[i]] = "mounted"
      BY <2>1, <3>1 DEF StackInv
    <3> QED
      BY <3>1, <3>2
  <2>4. \A i \in 1 .. Len(console') : i = 1 \/ (i - 1 \in 1 .. Len(console) /\ console'[i] = console[i - 1])
    <3> SUFFICES ASSUME NEW i \in 1 .. Len(console'), i # 1
                 PROVE  i - 1 \in 1 .. Len(console) /\ console'[i] = console[i - 1]
      OBVIOUS
    <3> DEFINE j == i - 1
    <3>1. j \in 1 .. Len(console) /\ i = j + 1
      BY <2>2
    <3> HIDE DEF j
    <3>2. console'[i] = console[j]
      BY <2>2, <3>1
    <3> QED
      BY <3>1, <3>2 DEF j
  <2>5. \A i, j \in 1 .. Len(console') : console'[i] = console'[j] => i = j
    <3> SUFFICES ASSUME NEW i \in 1 .. Len(console'), NEW j \in 1 .. Len(console'), console'[i] = console'[j]
                 PROVE  i = j
      OBVIOUS
    <3>1. CASE i = 1 \/ j = 1
      BY <2>2, <2>3, <2>4, <3>1
    <3>2. CASE i # 1 /\ j # 1
      <4>1. /\ i - 1 \in 1 .. Len(console) /\ j - 1 \in 1 .. Len(console)
            /\ console[i - 1] = console[j - 1]
        BY <2>4, <3>2
      <4>2. i - 1 = j - 1
        BY <2>1, <4>1 DEF StackInv
      <4> QED
        BY <4>2, <2>2
    <3> QED
      BY <3>1, <3>2
  <2>6. found'[w] = console /\ \A v \in Reporters \ {w} : found'[v] = found[v]
    BY <1>2, <2>11 DEF CaptureTypes, found_w
  <2>7. \A v \in Reporters \ {w} : since'[v] = since[v]
    BY <1>2 DEF CaptureTypes
  <2>8. ASSUME NEW i \in 1 .. Len(console')
        PROVE  /\ Len(found'[console'[i]]) = Len(console') - i
               /\ \A k \in 1 .. Len(console') - i : found'[console'[i]][k] = console'[i + k]
    <3>1. CASE i = 1
      <4>1. found'[console'[i]] = console
        BY <2>2, <2>6, <3>1
      <4>2. \A k \in 1 .. Len(console) : console'[i + k] = console[k]
        BY <2>2, <3>1
      <4>3. Len(console') - i = Len(console)
        BY <2>2, <3>1
      <4> QED
        BY <4>1, <4>2, <4>3
    <3>2. CASE i # 1
      <4> DEFINE j == i - 1
                 r == found[console[j]]
      <4>1. j \in 1 .. Len(console) /\ i = j + 1 /\ console'[i] = console[j]
        BY <2>2, <2>4, <3>2
      <4>2. found'[console'[i]] = r
        BY <2>3, <2>6, <4>1
      <4>3. Len(r) = Len(console) - j /\ \A k \in 1 .. Len(console) - j : r[k] = console[j + k]
        BY <2>1, <4>1 DEF StackInv
      <4> HIDE DEF j, r
      <4>4. Len(console') - i = Len(console) - j
        BY <2>2, <4>1
      <4>5. ASSUME NEW k \in 1 .. Len(console) - j PROVE console'[i + k] = console[j + k]
        <5>1. j + k \in 1 .. Len(console) /\ i + k = (j + k) + 1
          BY <2>2, <4>1
        <5> QED
          BY <2>2, <5>1
      <4> QED
        BY <4>2, <4>3, <4>4, <4>5
    <3> QED
      BY <3>1, <3>2
  <2>9. ASSUME NEW i \in 1 .. Len(console') PROVE consoleLogs'[console'[i]] = Since(printed', since'[console'[i]])
    <3>1. CASE i = 1
      <4>1. console'[i] = w /\ consoleLogs'[w] = <<>>
        BY <2>1, <2>2, <3>1 DEF StackInv
      <4>2. since'[w] = printed /\ printed' = printed /\ printed \in Nat /\ Kept \in Nat
        BY <1>2, <1>3, ReporterAssumption DEF CaptureTypes
      <4>4. Since(printed', since'[w]) = <<>>
        BY <4>2, SinceNow
      <4> QED
        BY <4>1, <4>4
    <3>2. CASE i # 1
      <4> DEFINE v == console[i - 1]
      <4>1. i - 1 \in 1 .. Len(console) /\ console'[i] = v /\ v \in Reporters \ {w}
        BY <2>3, <2>4, <3>2
      <4>2. consoleLogs[v] = Since(printed, since[v])
        BY <2>1, <4>1 DEF StackInv
      <4> HIDE DEF v
      <4>3. consoleLogs'[v] = Since(printed', since'[v])
        BY <2>7, <4>1, <4>2
      <4> QED
        BY <4>1, <4>3
    <3> QED
      BY <3>1, <3>2
  <2>10. ASSUME NEW v \in Reporters
         PROVE  /\ life'[v] = "mounted" <=> \E i \in 1 .. Len(console') : console'[i] = v
                /\ life'[v] \in {"new", "made"} => consoleLogs'[v] = <<>>
    <3>1. life'[v] = (IF v = w THEN "mounted" ELSE life[v])
      BY <1>2 DEF CaptureTypes
    <3>2. CASE v = w
      BY <2>2, <3>1, <3>2
    <3>3. CASE v # w
      <4>1. life[v] = "mounted" <=> \E i \in 1 .. Len(console) : console[i] = v
        BY <2>1 DEF StackInv
      <4>2. (\E i \in 1 .. Len(console) : console[i] = v) => \E i \in 1 .. Len(console') : console'[i] = v
        <5> SUFFICES ASSUME NEW i \in 1 .. Len(console), console[i] = v
                     PROVE  i + 1 \in 1 .. Len(console') /\ console'[i + 1] = v
          OBVIOUS
        <5>1. i + 1 \in 1 .. Len(console')
          BY <2>2
        <5>2. console'[i + 1] = console[i]
          BY <2>2
        <5> QED
          BY <5>1, <5>2
      <4>3. (\E i \in 1 .. Len(console') : console'[i] = v) => \E i \in 1 .. Len(console) : console[i] = v
        BY <2>2, <2>4, <3>3
      <4>4. life[v] \in {"new", "made"} => consoleLogs[v] = <<>>
        BY <2>1 DEF StackInv
      <4> QED
        BY <3>1, <3>3, <4>1, <4>2, <4>3, <4>4
    <3> QED
      BY <3>2, <3>3
  <2> QED
    BY <2>5, <2>8, <2>9, <2>10 DEF StackInv
<1> QED
  BY <1>5, <1>6, <1>7 DEF CaptureIInv

LEMMA MountStep == \A w \in Reporters : CaptureIInv /\ (Mount(w) \/ MountAtOnce(w)) => CaptureIInv'
<1> SUFFICES ASSUME CaptureIInv, NEW w \in Reporters, Mount(w) \/ MountAtOnce(w) PROVE CaptureIInv'
  OBVIOUS
<1>1. /\ console \in Seq(Reporters) /\ found \in [Reporters -> Seq(Reporters)] /\ nested \in BOOLEAN
      /\ <<w>> \o found[w] \in Seq(Reporters) /\ <<w>> \o console \in Seq(Reporters)
  BY DEF CaptureIInv, CaptureTypes
<1>2. CASE Mount(w)
  <2>1. life[w] = "made" /\ Own(w) = found[w]
    BY <1>2 DEF Mount, Own
  <2>2. /\ life' = [life EXCEPT ![w] = "mounted"] /\ since' = [since EXCEPT ![w] = printed]
        /\ printed' = printed /\ consoleLogs' = consoleLogs /\ found' = found
        /\ console' = <<w>> \o found[w] /\ nested' = (nested /\ console = found[w])
    BY <1>2, <2>1 DEF Mount
  <2>3. console = found[w] => found' = [found EXCEPT ![w] = console] /\ console' = <<w>> \o console
    BY <1>1, <2>2
  <2>4. /\ nested' \in BOOLEAN /\ console' \in Seq(Reporters)
        /\ found' \in [Reporters -> Seq(Reporters)]
    BY <1>1, <2>2
  <2>5. nested' => nested /\ found' = [found EXCEPT ![w] = console] /\ console' = <<w>> \o console
    BY <2>2, <2>3
  <2> QED
    BY <2>1, <2>2, <2>4, <2>5, Comes
<1>3. CASE MountAtOnce(w)
  <2>1. /\ life[w] = "new" /\ life' = [life EXCEPT ![w] = "mounted"]
        /\ since' = [since EXCEPT ![w] = printed]
        /\ printed' = printed /\ consoleLogs' = consoleLogs /\ nested' = nested
        /\ found' = [found EXCEPT ![w] = console] /\ console' = <<w>> \o console
    BY <1>3 DEF MountAtOnce
  <2>2. /\ nested' \in BOOLEAN /\ console' \in Seq(Reporters)
        /\ found' \in [Reporters -> Seq(Reporters)]
    BY <1>1, <2>1
  <2> QED
    BY <2>1, <2>2, Comes
<1> QED
  BY <1>2, <1>3

LEMMA UnmountStep == \A w \in Reporters : CaptureIInv /\ Unmount(w) => CaptureIInv'
<1> SUFFICES ASSUME CaptureIInv, NEW w \in Reporters, Unmount(w) PROVE CaptureIInv'
  OBVIOUS
<1>1. /\ life[w] \in {"made", "mounted"} /\ life' = [life EXCEPT ![w] = "gone"]
      /\ console' = found[w] /\ nested' = (nested /\ console = Own(w))
      /\ found' = found /\ since' = since /\ printed' = printed /\ consoleLogs' = consoleLogs
  BY DEF Unmount
<1>2. CaptureTypes /\ \A v \in Reporters : since[v] <= printed
  BY DEF CaptureIInv
<1>3. console \in Seq(Reporters) /\ console' \in Seq(Reporters)
  BY <1>1, <1>2 DEF CaptureTypes
<1>4. CaptureTypes'
  <2>1. life' \in [Reporters -> {"new", "made", "mounted", "gone"}] /\ nested' \in BOOLEAN
    BY <1>1, <1>2 DEF CaptureTypes
  <2> QED
    BY <1>1, <1>2, <1>3, <2>1 DEF CaptureTypes
<1>5. \A v \in Reporters : since'[v] <= printed'
  BY <1>1, <1>2
<1>6. ASSUME nested', life[w] = "mounted" PROVE StackInv'
  <2>1. nested /\ console # <<>> /\ Head(console) = w
    <3>1. nested /\ console = <<w>> \o found[w] /\ found[w] \in Seq(Reporters)
      BY <1>1, <1>2, <1>6 DEF Own, CaptureTypes
    <3> QED
      BY <3>1
  <2>2. StackInv
    BY <2>1 DEF CaptureIInv
  <2>3. Len(console) \in Nat /\ Len(console) >= 1 /\ console[1] = w
    BY <1>3, <2>1
  <2>4. Len(console') = Len(console) - 1 /\ \A k \in 1 .. Len(console) - 1 : console'[k] = console[1 + k]
    BY <1>1, <2>2, <2>3 DEF StackInv
  <2>5. \A i \in 1 .. Len(console') : i + 1 \in 1 .. Len(console) /\ console'[i] = console[i + 1]
    BY <2>3, <2>4
  <2>6. \A i, j \in 1 .. Len(console') : console'[i] = console'[j] => i = j
    <3> SUFFICES ASSUME NEW i \in 1 .. Len(console'), NEW j \in 1 .. Len(console'), console'[i] = console'[j]
                 PROVE  i = j
      OBVIOUS
    <3>1. i + 1 = j + 1
      BY <2>2, <2>5 DEF StackInv
    <3> QED
      BY <3>1
  <2>7. ASSUME NEW i \in 1 .. Len(console')
        PROVE  /\ Len(found'[console'[i]]) = Len(console') - i
               /\ \A k \in 1 .. Len(console') - i : found'[console'[i]][k] = console'[i + k]
    <3> DEFINE j == i + 1
               r == found[console[j]]
    <3>1. j \in 1 .. Len(console) /\ console'[i] = console[j] /\ j = i + 1
      BY <2>5
    <3>2. Len(r) = Len(console) - j /\ \A k \in 1 .. Len(console) - j : r[k] = console[j + k]
      BY <2>2, <3>1 DEF StackInv
    <3>3. found'[console'[i]] = r
      BY <1>1, <3>1
    <3> HIDE DEF j, r
    <3>4. Len(console') - i = Len(console) - j
      BY <2>3, <2>4, <3>1
    <3>5. ASSUME NEW k \in 1 .. Len(console) - j PROVE console'[i + k] = console[j + k]
      <4>1. i + k \in 1 .. Len(console) - 1 /\ j + k = 1 + (i + k)
        BY <2>3, <3>1
      <4> QED
        BY <2>4, <4>1
    <3> QED
      BY <3>2, <3>3, <3>4, <3>5
  <2>9. ASSUME NEW i \in 1 .. Len(console') PROVE consoleLogs'[console'[i]] = Since(printed', since'[console'[i]])
    <3> DEFINE v == console[i + 1]
    <3>1. i + 1 \in 1 .. Len(console) /\ console'[i] = v /\ v \in Reporters
      BY <1>3, <2>5
    <3>2. consoleLogs[v] = Since(printed, since[v])
      BY <2>2, <3>1 DEF StackInv
    <3> HIDE DEF v
    <3>3. consoleLogs'[v] = Since(printed', since'[v])
      BY <1>1, <3>1, <3>2
    <3> QED
      BY <3>1, <3>3
  <2>10. ASSUME NEW v \in Reporters
         PROVE  /\ life'[v] = "mounted" <=> \E i \in 1 .. Len(console') : console'[i] = v
                /\ life'[v] \in {"new", "made"} => consoleLogs'[v] = <<>>
    <3>1. life'[v] = (IF v = w THEN "gone" ELSE life[v])
      BY <1>1, <1>2 DEF CaptureTypes
    <3>2. life[v] \in {"new", "made"} => consoleLogs[v] = <<>>
      BY <2>2 DEF StackInv
    <3>3. CASE v = w
      <4>1. ASSUME NEW i \in 1 .. Len(console'), console'[i] = w PROVE FALSE
        <5>1. i + 1 \in 1 .. Len(console) /\ console[i + 1] = w /\ 1 \in 1 .. Len(console) /\ i + 1 # 1
          BY <2>3, <2>5, <4>1
        <5>2. console[i + 1] = console[1]
          BY <2>3, <5>1
        <5>3. i + 1 = 1
          BY <2>2, <5>1, <5>2 DEF StackInv
        <5> QED
          BY <5>1, <5>3
      <4> QED
        BY <3>1, <3>3, <4>1
    <3>4. CASE v # w
      <4>1. life[v] = "mounted" <=> \E i \in 1 .. Len(console) : console[i] = v
        BY <2>2 DEF StackInv
      <4>2. ASSUME NEW i \in 1 .. Len(console), console[i] = v
            PROVE  \E k \in 1 .. Len(console') : console'[k] = v
        <5> DEFINE k == i - 1
        <5>1. k \in 1 .. Len(console) - 1 /\ 1 + k = i
          BY <2>3, <3>4, <4>2
        <5> HIDE DEF k
        <5>2. k \in 1 .. Len(console') /\ console'[k] = v
          BY <2>4, <4>2, <5>1
        <5> QED
          BY <5>2
      <4>3. ASSUME NEW k \in 1 .. Len(console'), console'[k] = v
            PROVE  \E i \in 1 .. Len(console) : console[i] = v
        BY <2>5, <4>3
      <4> QED
        BY <1>1, <3>1, <3>2, <3>4, <4>1, <4>2, <4>3
    <3> QED
      BY <3>3, <3>4
  <2> QED
    BY <2>6, <2>7, <2>9, <2>10 DEF StackInv
<1>7. ASSUME nested', life[w] = "made" PROVE StackInv'
  <2>1. nested /\ console' = console
    BY <1>1, <1>7 DEF Own
  <2>2. StackInv
    BY <2>1 DEF CaptureIInv
  <2>3. \A v \in Reporters : life'[v] = IF v = w THEN "gone" ELSE life[v]
    BY <1>1, <1>2 DEF CaptureTypes
  <2>4. \A i \in 1 .. Len(console) : console[i] # w
    BY <1>7, <2>2 DEF StackInv
  <2>5. ASSUME NEW v \in Reporters
        PROVE  /\ life'[v] = "mounted" <=> \E i \in 1 .. Len(console) : console[i] = v
               /\ life'[v] \in {"new", "made"} => consoleLogs[v] = <<>>
    <3>1. CASE v = w
      BY <2>3, <2>4, <3>1
    <3>2. CASE v # w
      BY <2>2, <2>3, <3>2 DEF StackInv
    <3> QED
      BY <3>1, <3>2
  <2>6. /\ \A i, j \in 1 .. Len(console) : console[i] = console[j] => i = j
        /\ \A i \in 1 .. Len(console) :
              /\ Len(found[console[i]]) = Len(console) - i
              /\ \A k \in 1 .. Len(console) - i : found[console[i]][k] = console[i + k]
              /\ consoleLogs[console[i]] = Since(printed, since[console[i]])
    BY <2>2 DEF StackInv
  <2>7. console' = console /\ found' = found /\ since' = since /\ printed' = printed /\ consoleLogs' = consoleLogs
    BY <1>1, <2>1
  <2>8. /\ \A i, j \in 1 .. Len(console') : console'[i] = console'[j] => i = j
        /\ \A i \in 1 .. Len(console') :
              /\ Len(found'[console'[i]]) = Len(console') - i
              /\ \A k \in 1 .. Len(console') - i : found'[console'[i]][k] = console'[i + k]
              /\ consoleLogs'[console'[i]] = Since(printed', since'[console'[i]])
    BY <2>6, <2>7
  <2>9. \A v \in Reporters :
           /\ life'[v] = "mounted" <=> \E i \in 1 .. Len(console') : console'[i] = v
           /\ life'[v] \in {"new", "made"} => consoleLogs'[v] = <<>>
    BY <2>5, <2>7
  <2> QED
    BY <2>8, <2>9, Zenon DEF StackInv
<1> QED
  BY <1>1, <1>4, <1>5, <1>6, <1>7 DEF CaptureIInv

\* What is kept of the last entries and one more.
LEMMA KeptNext ==
    ASSUME NEW p \in Nat, NEW s \in Nat, s <= p, NEW q \in Nat, q = p + 1
    PROVE  LastOf(Append(Since(p, s), q)) = Since(q, s)
<1> DEFINE f == Until(p, s)
           g == Until(q, s)
           old == Since(p, s)
           new == Append(old, q)
<1>1. Kept \in Nat \ {0}
  BY ReporterAssumption
<1>2. /\ f \in Nat /\ f <= p /\ g \in Nat /\ g <= q
      /\ (q - f > Kept => g = f + 1) /\ (q - f <= Kept => g = f)
  BY <1>1 DEF Until
<1>3. old = [i \in 1 .. p - f |-> f + i]
  BY DEF Since
<1>4. Since(q, s) = [i \in 1 .. q - g |-> g + i]
  BY DEF Since
<1> HIDE DEF f, g
<1>5. old \in Seq(Nat) /\ Len(old) = p - f /\ \A i \in 1 .. p - f : old[i] = f + i
  <2>1. p - f \in Nat
    BY <1>2
  <2>2. old \in [1 .. p - f -> Nat]
    BY <1>2, <1>3
  <2>3. old \in Seq(Nat)
    BY <2>1, <2>2, ElementOfSeq, IsASeq
  <2>4. Len(old) = p - f
    BY <1>3, <2>1, <2>3
  <2> QED
    BY <1>3, <2>3, <2>4
<1> HIDE DEF old
<1>6. /\ new \in Seq(Nat) /\ Len(new) = q - f /\ new = [i \in 1 .. q - f |-> f + i]
  <2>1. new \in Seq(Nat) /\ Len(new) = (p - f) + 1
    BY <1>5
  <2>2. (p - f) + 1 = q - f /\ q - f \in Nat
    BY <1>2
  <2>3. \A i \in 1 .. q - f : new[i] = f + i
    <3> SUFFICES ASSUME NEW i \in 1 .. q - f PROVE new[i] = f + i
      OBVIOUS
    <3>1. CASE i = q - f
      <4>1. i = Len(old) + 1
        BY <1>2, <1>5, <3>1
      <4>2. new[i] = q
        BY <1>5, <4>1, AppendProperties
      <4>3. f + i = q
        BY <1>2, <3>1
      <4> QED
        BY <4>2, <4>3
    <3>2. CASE i # q - f
      <4>1. i \in 1 .. p - f
        BY <1>2, <3>2
      <4>2. new[i] = old[i]
        BY <1>5, <4>1
      <4> QED
        BY <1>5, <4>1, <4>2
    <3> QED
      BY <3>1, <3>2
  <2>4. new = [i \in 1 .. q - f |-> new[i]]
    BY <2>1, <2>2
  <2> QED
    BY <2>1, <2>2, <2>3, <2>4
<1> HIDE DEF new, old
<1>7. CASE Len(new) > Kept
  <2>1. g = f + 1 /\ LastOf(new) = Tail(new)
    BY <1>2, <1>6, <1>7 DEF LastOf
  <2>2. Tail(new) = [i \in 1 .. Len(new) - 1 |-> new[i + 1]]
    <3>1. new # <<>>
      <4>1. Len(new) # 0
        BY <1>1, <1>7
      <4> QED
        BY <4>1
    <3>2. /\ Tail(new) \in Seq(Nat) /\ Len(Tail(new)) = Len(new) - 1
          /\ \A i \in 1 .. Len(Tail(new)) : Tail(new)[i] = new[i + 1]
      BY <1>6, <3>1, HeadTailProperties
    <3> DEFINE t == Tail(new)
    <3>3. /\ t \in Seq(Nat) /\ Len(t) = Len(new) - 1
          /\ \A i \in 1 .. Len(t) : t[i] = new[i + 1]
      BY <3>2
    <3> HIDE DEF t
    <3>4. t = [i \in 1 .. Len(t) |-> t[i]]
      BY <3>3
    <3>5. t = [i \in 1 .. Len(new) - 1 |-> new[i + 1]]
      BY <3>3, <3>4
    <3> QED
      BY <3>5 DEF t
  <2>3. Len(new) - 1 = q - g
    BY <1>2, <1>6, <2>1
  <2>4. \A i \in 1 .. Len(new) - 1 : new[i + 1] = g + i
    <3> SUFFICES ASSUME NEW i \in 1 .. Len(new) - 1 PROVE new[i + 1] = g + i
      OBVIOUS
    <3>1. i + 1 \in 1 .. q - f
      BY <1>2, <1>6
    <3>2. new[i + 1] = f + (i + 1)
      BY <1>6, <3>1
    <3> QED
      BY <1>2, <2>1, <3>2
  <2>5. Tail(new) = [i \in 1 .. q - g |-> g + i]
    BY <2>2, <2>3, <2>4
  <2> QED
    BY <1>4, <2>1, <2>5 DEF new, old
<1>8. CASE ~(Len(new) > Kept)
  <2>1. g = f /\ LastOf(new) = new
    BY <1>1, <1>2, <1>6, <1>8 DEF LastOf
  <2> QED
    BY <1>4, <1>6, <2>1 DEF new, old
<1> QED
  BY <1>7, <1>8

LEMMA PrintStep == CaptureIInv /\ PrintEntry => CaptureIInv'
<1> SUFFICES ASSUME CaptureIInv, PrintEntry PROVE CaptureIInv'
  OBVIOUS
<1>1. /\ printed < MaxPrinted /\ printed' = printed + 1
      /\ consoleLogs' = [w \in Reporters |-> IF w \in ToSet(console)
                                             THEN LastOf(Append(consoleLogs[w], printed'))
                                             ELSE consoleLogs[w]]
      /\ console' = console /\ found' = found /\ life' = life /\ since' = since /\ nested' = nested
  BY DEF PrintEntry
<1>2. CaptureTypes /\ \A v \in Reporters : since[v] <= printed
  BY DEF CaptureIInv
<1>3. printed \in Nat /\ MaxPrinted \in Nat /\ printed' \in 1 .. MaxPrinted /\ Kept \in Nat \ {0}
  BY <1>1, <1>2, ReporterAssumption DEF CaptureTypes
<1>4. \A v \in Reporters : since[v] \in Nat
  BY <1>2, <1>3 DEF CaptureTypes
<1>5. ASSUME NEW v \in Reporters
      PROVE  consoleLogs'[v] \in Seq(1 .. MaxPrinted) /\ Len(consoleLogs'[v]) <= Kept
  <2> DEFINE old == consoleLogs[v]
             new == Append(old, printed')
  <2>1. old \in Seq(1 .. MaxPrinted) /\ Len(old) <= Kept /\ Len(old) \in Nat
    BY <1>2 DEF CaptureTypes
  <2>2. consoleLogs'[v] = LastOf(new) \/ consoleLogs'[v] = old
    BY <1>1
  <2> HIDE DEF old
  <2>3. new \in Seq(1 .. MaxPrinted) /\ Len(new) = Len(old) + 1
    BY <1>3, <2>1
  <2> HIDE DEF new, old
  <2>4. LastOf(new) \in Seq(1 .. MaxPrinted) /\ Len(LastOf(new)) <= Kept
    <3>1. CASE Len(new) > Kept
      <4>1. LastOf(new) = Tail(new) /\ new # <<>>
        BY <1>3, <2>1, <2>3, <3>1 DEF LastOf
      <4>2. Tail(new) \in Seq(1 .. MaxPrinted) /\ Len(Tail(new)) = Len(new) - 1
        BY <2>3, <4>1, HeadTailProperties
      <4> QED
        BY <1>3, <2>1, <2>3, <4>1, <4>2
    <3>2. CASE ~(Len(new) > Kept)
      BY <1>3, <2>1, <2>3, <3>2 DEF LastOf
    <3> QED
      BY <3>1, <3>2
  <2> QED
    BY <2>1, <2>2, <2>4
<1>6. CaptureTypes'
  <2>1. consoleLogs' \in [Reporters -> Seq(1 .. MaxPrinted)]
    <3>1. DOMAIN consoleLogs' = Reporters /\ consoleLogs' = [v \in Reporters |-> consoleLogs'[v]]
      BY <1>1
    <3> QED
      BY <1>5, <3>1
  <2>2. printed' \in 0 .. MaxPrinted
    BY <1>3
  <2> QED
    BY <1>1, <1>2, <1>5, <2>1, <2>2 DEF CaptureTypes
<1>7. \A v \in Reporters : since'[v] <= printed'
  BY <1>1, <1>2, <1>3, <1>4
<1>8. ASSUME nested PROVE StackInv'
  <2>1. StackInv
    BY <1>8 DEF CaptureIInv
  <2>2. DOMAIN console = 1 .. Len(console) /\ \A i \in 1 .. Len(console) : console[i] \in Reporters
    BY <1>2 DEF CaptureTypes
  <2>3. ASSUME NEW i \in 1 .. Len(console)
        PROVE  consoleLogs'[console[i]] = Since(printed', since[console[i]])
    <3> DEFINE v == console[i]
    <3>1. v \in Reporters /\ v \in ToSet(console) /\ consoleLogs[v] = Since(printed, since[v])
      BY <2>1, <2>2 DEF StackInv, ToSet
    <3> HIDE DEF v
    <3>2. consoleLogs'[v] = LastOf(Append(Since(printed, since[v]), printed'))
      BY <1>1, <3>1
    <3>3. since[v] \in Nat /\ since[v] <= printed
      BY <1>2, <1>4, <3>1
    <3>4. consoleLogs'[v] = Since(printed', since[v])
      <4>1. printed' \in Nat /\ printed' = printed + 1 /\ printed \in Nat
        BY <1>1, <1>3
      <4>2. LastOf(Append(Since(printed, since[v]), printed')) = Since(printed', since[v])
        BY <3>3, <4>1, KeptNext
      <4> QED
        BY <3>2, <4>2
    <3> QED
      BY <1>1, <3>4 DEF v
  <2>4. ASSUME NEW v \in Reporters, life[v] \in {"new", "made"} PROVE consoleLogs'[v] = <<>>
    <3>1. consoleLogs[v] = <<>>
      BY <2>1, <2>4 DEF StackInv
    <3>2. life[v] # "mounted"
      BY <2>4
    <3>3. \A i \in 1 .. Len(console) : console[i] # v
      BY <2>1, <3>2 DEF StackInv
    <3>4. v \notin ToSet(console)
      BY <2>2, <3>3 DEF ToSet
    <3> QED
      BY <1>1, <3>1, <3>4
  <2> QED
    BY <1>1, <2>1, <2>3, <2>4 DEF StackInv
<1> QED
  BY <1>1, <1>6, <1>7, <1>8 DEF CaptureIInv

LEMMA CaptureStays ==
    ASSUME CaptureIInv, UNCHANGED captures
    PROVE  CaptureIInv'
<1>1. CaptureTypes' /\ StackInv' = StackInv
  BY DEF CaptureIInv, CaptureTypes, StackInv, captures
<1> QED
  BY <1>1 DEF CaptureIInv, captures

-----------------------------------------------------------------------------
(* Their form *)

ReportTypes ==
    /\ description \in 0 .. MaxEdits /\ edits \in 0 .. MaxEdits /\ sending \in BOOLEAN /\ sentShown \in BOOLEAN
    /\ report \in [typed : 0 .. MaxEdits, at : {"none", "screenshot", "posted", "stored", "refused"}]
    /\ reports \in Seq(1 .. MaxEdits) /\ unanswered \subseteq 1 .. MaxEdits
    /\ thanked \in 0 .. MaxEdits /\ crossed \subseteq 1 .. MaxEdits
    /\ wiped \subseteq [shown : 0 .. MaxEdits, reported : 1 .. MaxEdits]

\* No report is stored that is not of an edit, and one that says what the form shows was lost, or is
\* about to be answered, or is the one that was.
StoredInv ==
    /\ \A i \in 1 .. Len(reports) :
          /\ reports[i] <= edits
          /\ \/ reports[i] # description
             \/ reports[i] \in unanswered
             \/ report.at = "stored" /\ description = report.typed
             \/ sentShown
          /\ report.at \in {"screenshot", "posted"} /\ reports[i] = report.typed => report.typed \in unanswered
    /\ \A i, j \in 1 .. Len(reports) : i # j /\ reports[i] = reports[j] => reports[i] \in unanswered

\* While a report is on its way the form shows what it says, but for edits since; so it does with the thanks.
ShownInv ==
    /\ description <= edits /\ report.typed <= edits
    /\ sending <=> report.at # "none"
    /\ sending => report.typed >= 1 /\ (description = report.typed \/ description \in crossed)
    /\ sentShown => ~sending /\ thanked >= 1 /\ (description = thanked \/ description \in crossed)

ReportIInv == ReportTypes /\ StoredInv /\ ShownInv /\ WipedWasReported

LEMMA ReportSound == ReportIInv => StoredTwiceIfLost /\ WipedWasReported
<1> SUFFICES ASSUME ReportIInv PROVE StoredTwiceIfLost
  BY DEF ReportIInv
<1>1. DOMAIN reports = 1 .. Len(reports)
  BY DEF ReportIInv, ReportTypes
<1> QED
  BY <1>1 DEF ReportIInv, StoredInv, StoredTwiceIfLost

LEMMA ReportInit == ReporterInit => ReportIInv
<1> SUFFICES ASSUME ReporterInit PROVE ReportIInv
  OBVIOUS
<1>1. /\ description = 0 /\ edits = 0 /\ sending = FALSE /\ sentShown = FALSE /\ thanked = 0
      /\ report = NoReport /\ reports = <<>> /\ unanswered = {} /\ crossed = {} /\ wiped = {}
  BY DEF ReporterInit
<1>2. 0 \in 0 .. MaxEdits
  BY ReporterAssumption
<1>3. /\ report \in [typed : 0 .. MaxEdits, at : {"none", "screenshot", "posted", "stored", "refused"}]
      /\ report.at = "none" /\ report.typed = 0
  BY <1>1, <1>2 DEF NoReport
<1>4. ReportTypes
  <2>1. reports \in Seq(1 .. MaxEdits)
    BY <1>1
  <2>2. description \in 0 .. MaxEdits /\ edits \in 0 .. MaxEdits /\ thanked \in 0 .. MaxEdits
    BY <1>1, <1>2
  <2>3. sending \in BOOLEAN /\ sentShown \in BOOLEAN /\ unanswered = {} /\ crossed = {} /\ wiped = {}
    BY <1>1
  <2> QED
    BY <1>3, <2>1, <2>2, <2>3 DEF ReportTypes
<1>5. StoredInv
  BY <1>1 DEF StoredInv
<1>6. ShownInv
  BY <1>1, <1>3 DEF ShownInv
<1>7. WipedWasReported
  BY <1>1 DEF WipedWasReported
<1> QED
  BY <1>4, <1>5, <1>6, <1>7 DEF ReportIInv

LEMMA ReportFacts ==
    ASSUME ReportIInv
    PROVE  /\ description \in 0 .. MaxEdits /\ edits \in 0 .. MaxEdits /\ sending \in BOOLEAN /\ sentShown \in BOOLEAN
           /\ report \in [typed : 0 .. MaxEdits, at : {"none", "screenshot", "posted", "stored", "refused"}]
           /\ report.typed \in 0 .. MaxEdits
           /\ report.at \in {"none", "screenshot", "posted", "stored", "refused"}
           /\ reports \in Seq(1 .. MaxEdits) /\ Len(reports) \in Nat
           /\ \A i \in 1 .. Len(reports) : reports[i] \in 1 .. MaxEdits
           /\ unanswered \subseteq 1 .. MaxEdits
           /\ thanked \in 0 .. MaxEdits /\ crossed \subseteq 1 .. MaxEdits
           /\ wiped \subseteq [shown : 0 .. MaxEdits, reported : 1 .. MaxEdits]
           /\ StoredInv /\ ShownInv /\ WipedWasReported /\ MaxEdits \in Nat
<1>1. ReportTypes
  BY DEF ReportIInv
<1>2. report.typed \in 0 .. MaxEdits /\ report.at \in {"none", "screenshot", "posted", "stored", "refused"}
  BY <1>1 DEF ReportTypes
<1>3. Len(reports) \in Nat /\ \A i \in 1 .. Len(reports) : reports[i] \in 1 .. MaxEdits
  <2>1. reports \in Seq(1 .. MaxEdits)
    BY <1>1 DEF ReportTypes
  <2>2. Len(reports) \in Nat
    BY <2>1, LenProperties
  <2>3. \A i \in 1 .. Len(reports) : reports[i] \in 1 .. MaxEdits
    BY <2>1, ElementOfSeq
  <2> QED
    BY <2>2, <2>3
<1> QED
  BY <1>1, <1>2, <1>3, ReporterAssumption DEF ReportTypes, ReportIInv

\* A report that is on its way goes on.
LEMMA ReportMoves ==
    ASSUME ReportIInv, NEW spot \in {"posted", "refused"}, report.at \in {"screenshot", "posted"},
           report' = [report EXCEPT !.at = spot],
           UNCHANGED <<description, edits, sending, sentShown, reports, thanked, reportHistory>>
    PROVE  ReportIInv'
<1> USE ReportFacts DEF reportHistory
<1>1. report'.typed = report.typed /\ report'.at = spot
  OBVIOUS
<1>2. report' \in [typed : 0 .. MaxEdits, at : {"none", "screenshot", "posted", "stored", "refused"}]
  OBVIOUS
<1>3. ReportTypes'
  BY <1>2 DEF ReportTypes
<1>4. StoredInv'
  BY <1>1 DEF StoredInv
<1>5. ShownInv'
  BY <1>1 DEF ShownInv
<1>6. WipedWasReported'
  BY DEF WipedWasReported
<1> QED
  BY <1>3, <1>4, <1>5, <1>6 DEF ReportIInv

LEMMA EditStep == ReportIInv /\ Edit => ReportIInv'
<1> SUFFICES ASSUME ReportIInv, Edit PROVE ReportIInv'
  OBVIOUS
<1> USE ReportFacts
<1>1. /\ ~sentShown /\ edits < MaxEdits /\ edits' = edits + 1 /\ description' = edits'
      /\ crossed' = IF sending THEN crossed \cup {edits'} ELSE crossed
      /\ UNCHANGED <<sending, sentShown, report, reports, thanked, unanswered, wiped>>
  BY DEF Edit
<1>2. edits' \in 1 .. MaxEdits
  BY <1>1
<1>3. ReportTypes'
  BY <1>1, <1>2 DEF ReportTypes
<1>4. StoredInv'
  <2>1. ASSUME NEW i \in 1 .. Len(reports) PROVE reports[i] <= edits' /\ reports[i] # description'
    <3>1. reports[i] <= edits /\ reports[i] \in 1 .. MaxEdits
      BY DEF StoredInv
    <3> QED
      BY <1>1, <3>1
  <2> QED
    BY <1>1, <2>1 DEF StoredInv
<1>5. ShownInv'
  BY <1>1 DEF ShownInv
<1>6. WipedWasReported'
  BY <1>1 DEF WipedWasReported
<1> QED
  BY <1>3, <1>4, <1>5, <1>6 DEF ReportIInv

LEMMA SubmitStep == \A first \in {"screenshot", "posted"} : ReportIInv /\ Submit(first) => ReportIInv'
<1> SUFFICES ASSUME ReportIInv, NEW first \in {"screenshot", "posted"}, Submit(first) PROVE ReportIInv'
  OBVIOUS
<1> USE ReportFacts
<1>1. /\ description # 0 /\ ~sending /\ ~sentShown /\ sending' = TRUE
      /\ report' = [typed |-> description, at |-> first]
      /\ UNCHANGED <<description, edits, sentShown, reports, thanked, unanswered, crossed, wiped>>
  BY DEF Submit, reportHistory
<1>2. report'.typed = description /\ report'.at = first
  BY <1>1
<1>3. report' \in [typed : 0 .. MaxEdits, at : {"none", "screenshot", "posted", "stored", "refused"}]
  BY <1>1
<1>4. ReportTypes'
  BY <1>1, <1>3 DEF ReportTypes
<1>5. StoredInv'
  <2>1. report.at = "none"
    BY <1>1 DEF ShownInv
  <2> QED
    BY <1>1, <1>2, <2>1 DEF StoredInv
<1>6. ShownInv'
  BY <1>1, <1>2 DEF ShownInv
<1>7. WipedWasReported'
  BY <1>1 DEF WipedWasReported
<1> QED
  BY <1>4, <1>5, <1>6, <1>7 DEF ReportIInv

LEMMA StoreStep == ReportIInv /\ Store => ReportIInv'
<1> SUFFICES ASSUME ReportIInv, Store PROVE ReportIInv'
  OBVIOUS
<1> USE ReportFacts
<1>1. /\ report.at = "posted" /\ report' = [report EXCEPT !.at = "stored"]
      /\ reports' = Append(reports, report.typed)
      /\ UNCHANGED <<description, edits, sending, sentShown, thanked, unanswered, crossed, wiped>>
  BY DEF Store, Moves, reportHistory
<1>2. report'.typed = report.typed /\ report'.at = "stored"
  BY <1>1
<1>3. report' \in [typed : 0 .. MaxEdits, at : {"none", "screenshot", "posted", "stored", "refused"}]
  BY <1>1
<1>4. report.typed \in 1 .. MaxEdits /\ report.typed <= edits
  BY <1>1 DEF ShownInv
<1>5. /\ reports' \in Seq(1 .. MaxEdits) /\ Len(reports') = Len(reports) + 1
      /\ reports'[Len(reports) + 1] = report.typed
      /\ \A i \in 1 .. Len(reports) : reports'[i] = reports[i]
  BY <1>1, <1>4, AppendProperties
<1>6. \A i \in 1 .. Len(reports') : i \in 1 .. Len(reports) \/ (i = Len(reports) + 1 /\ reports'[i] = report.typed)
  BY <1>5
<1>7. ReportTypes'
  BY <1>1, <1>3, <1>5 DEF ReportTypes
<1>8. StoredInv'
  <2>1. \A i \in 1 .. Len(reports) : reports[i] = report.typed => report.typed \in unanswered
    BY <1>1 DEF StoredInv
  <2>2. \A i \in 1 .. Len(reports) :
           reports[i] <= edits /\ (reports[i] # description \/ reports[i] \in unanswered \/ sentShown)
    BY <1>1 DEF StoredInv
  <2>3. ASSUME NEW i \in 1 .. Len(reports')
        PROVE  /\ reports'[i] <= edits
               /\ \/ reports'[i] # description
                  \/ reports'[i] \in unanswered
                  \/ description = report.typed
                  \/ sentShown
    BY <1>4, <1>5, <1>6, <2>2
  <2>4. ASSUME NEW i \in 1 .. Len(reports'), NEW j \in 1 .. Len(reports'), i # j, reports'[i] = reports'[j]
        PROVE  reports'[i] \in unanswered
    <3>1. CASE i \in 1 .. Len(reports) /\ j \in 1 .. Len(reports)
      BY <1>5, <2>4, <3>1 DEF StoredInv
    <3>2. CASE i \notin 1 .. Len(reports)
      <4>1. reports'[i] = report.typed /\ j \in 1 .. Len(reports)
        BY <1>6, <2>4, <3>2
      <4> QED
        BY <1>5, <2>1, <2>4, <4>1
    <3>3. CASE j \notin 1 .. Len(reports)
      <4>1. reports'[j] = report.typed /\ i \in 1 .. Len(reports)
        BY <1>6, <2>4, <3>3
      <4> QED
        BY <1>5, <2>1, <2>4, <4>1
    <3> QED
      BY <3>1, <3>2, <3>3
  <2> QED
    BY <1>1, <1>2, <2>3, <2>4 DEF StoredInv
<1>9. ShownInv'
  BY <1>1, <1>2 DEF ShownInv
<1>10. WipedWasReported'
  BY <1>1 DEF WipedWasReported
<1> QED
  BY <1>7, <1>8, <1>9, <1>10 DEF ReportIInv

LEMMA NoReportIs ==
    /\ NoReport.typed = 0 /\ NoReport.at = "none"
    /\ NoReport \in [typed : 0 .. MaxEdits, at : {"none", "screenshot", "posted", "stored", "refused"}]
<1>1. 0 \in 0 .. MaxEdits
  BY ReporterAssumption
<1> QED
  BY <1>1 DEF NoReport

LEMMA ThankStep == ReportIInv /\ Thank => ReportIInv'
<1> SUFFICES ASSUME ReportIInv, Thank PROVE ReportIInv'
  OBVIOUS
<1> USE ReportFacts, NoReportIs
<1>1. /\ report.at = "stored" /\ sentShown' = TRUE /\ sending' = FALSE /\ report' = NoReport
      /\ thanked' = report.typed
      /\ UNCHANGED <<description, edits, reports, unanswered, crossed, wiped>>
  BY DEF Thank, reportHistory
<1>2. ReportTypes'
  BY <1>1 DEF ReportTypes
<1>3. StoredInv'
  BY <1>1 DEF StoredInv
<1>4. ShownInv'
  BY <1>1 DEF ShownInv
<1>5. WipedWasReported'
  BY <1>1 DEF WipedWasReported
<1> QED
  BY <1>2, <1>3, <1>4, <1>5 DEF ReportIInv

LEMMA FailReportStep == ReportIInv /\ FailReport => ReportIInv'
<1> SUFFICES ASSUME ReportIInv, FailReport PROVE ReportIInv'
  OBVIOUS
<1> USE ReportFacts, NoReportIs
<1>1. /\ report.at \in {"stored", "refused"}
      /\ unanswered' = IF report.at = "stored" THEN unanswered \cup {report.typed} ELSE unanswered
      /\ sending' = FALSE /\ report' = NoReport
      /\ UNCHANGED <<description, edits, sentShown, reports, thanked, crossed, wiped>>
  BY DEF FailReport
<1>2. report.typed \in 1 .. MaxEdits
  BY <1>1 DEF ShownInv
<1>3. ReportTypes'
  BY <1>1, <1>2 DEF ReportTypes
<1>4. StoredInv'
  BY <1>1 DEF StoredInv
<1>5. ShownInv'
  BY <1>1 DEF ShownInv
<1>6. WipedWasReported'
  BY <1>1 DEF WipedWasReported
<1> QED
  BY <1>3, <1>4, <1>5, <1>6 DEF ReportIInv

LEMMA CloseStep == ReportIInv /\ Close => ReportIInv'
<1> SUFFICES ASSUME ReportIInv, Close PROVE ReportIInv'
  OBVIOUS
<1> USE ReportFacts
<1>1. /\ sentShown /\ sentShown' = FALSE /\ description' = 0
      /\ wiped' = wiped \cup {[shown |-> description, reported |-> thanked]}
      /\ UNCHANGED <<edits, sending, report, reports, thanked, unanswered, crossed>>
  BY DEF Close
<1>2. thanked \in 1 .. MaxEdits /\ (description = thanked \/ description \in crossed)
  BY <1>1 DEF ShownInv
<1>3. wiped' \subseteq [shown : 0 .. MaxEdits, reported : 1 .. MaxEdits]
  BY <1>1, <1>2
<1>4. description' \in 0 .. MaxEdits
  BY <1>1
<1>5. ReportTypes'
  BY <1>1, <1>3, <1>4 DEF ReportTypes
<1>6. StoredInv'
  <2>1. ASSUME NEW i \in 1 .. Len(reports) PROVE reports[i] # description'
    BY <1>1
  <2> QED
    BY <1>1, <2>1 DEF StoredInv
<1>7. ~sending
  BY <1>1 DEF ShownInv
<1>8. ShownInv'
  BY <1>1, <1>7 DEF ShownInv
<1>9. WipedWasReported'
  BY <1>1, <1>2 DEF WipedWasReported
<1> QED
  BY <1>5, <1>6, <1>8, <1>9 DEF ReportIInv

LEMMA ReportStays ==
    ASSUME ReportIInv, UNCHANGED reporterForm
    PROVE  ReportIInv'
BY DEF ReportIInv, ReportTypes, StoredInv, ShownInv, WipedWasReported, reporterForm, reportHistory

ReporterIInv == CaptureIInv /\ ReportIInv

LEMMA ReporterSound == ReporterIInv => ReporterInv
<1> SUFFICES ASSUME ReporterIInv PROVE ReporterInv
  OBVIOUS
<1>1. NestedCapture /\ StoredTwiceIfLost /\ WipedWasReported
  BY CaptureSound, ReportSound DEF ReporterIInv
<1>2. ReporterTypeOK
  <2>1. CaptureTypes /\ ReportTypes
    BY DEF ReporterIInv, CaptureIInv, ReportIInv
  <2>2. {sending, sentShown} \subseteq BOOLEAN
    BY <2>1 DEF ReportTypes
  <2> QED
    BY <2>1, <2>2 DEF ReporterTypeOK, CaptureTypes, ReportTypes
<1> QED
  BY <1>1, <1>2 DEF ReporterInv

LEMMA ReporterInitIInv == ReporterInit => ReporterIInv
BY CaptureInit, ReportInit DEF ReporterIInv

LEMMA ReporterStep == ReporterIInv /\ ReporterNext => ReporterIInv'
<1> SUFFICES ASSUME ReporterIInv, ReporterNext PROVE ReporterIInv'
  OBVIOUS
<1>1. CaptureIInv /\ ReportIInv
  BY DEF ReporterIInv
<1>2. ASSUME NEW w \in Reporters, Construct(w) \/ Mount(w) \/ MountAtOnce(w) \/ Unmount(w) PROVE ReporterIInv'
  <2>1. CaptureIInv'
    BY <1>1, <1>2, ConstructStep, MountStep, UnmountStep
  <2>2. UNCHANGED reporterForm
    BY <1>2 DEF Construct, Mount, MountAtOnce, Unmount
  <2> QED
    BY <1>1, <2>1, <2>2, ReportStays DEF ReporterIInv
<1>3. CASE PrintEntry
  <2>1. UNCHANGED reporterForm
    BY <1>3 DEF PrintEntry
  <2> QED
    BY <1>1, <1>3, <2>1, PrintStep, ReportStays DEF ReporterIInv
<1>4. CASE Edit
  <2>1. UNCHANGED captures
    BY <1>4 DEF Edit
  <2> QED
    BY <1>1, <1>4, <2>1, EditStep, CaptureStays DEF ReporterIInv
<1>5. ASSUME NEW first \in {"screenshot", "posted"}, Submit(first) PROVE ReporterIInv'
  <2>1. UNCHANGED captures
    BY <1>5 DEF Submit
  <2> QED
    BY <1>1, <1>5, <2>1, SubmitStep, CaptureStays DEF ReporterIInv
<1>6. CASE PostReport
  <2>1. /\ report.at = "screenshot" /\ report' = [report EXCEPT !.at = "posted"]
        /\ UNCHANGED <<captures, description, edits, sending, sentShown, reports, thanked, reportHistory>>
    BY <1>6 DEF PostReport, Moves
  <2>2. ReportIInv'
    BY <1>1, <2>1, ReportMoves
  <2> QED
    BY <1>1, <2>1, <2>2, CaptureStays DEF ReporterIInv
<1>7. CASE Store
  <2>1. UNCHANGED captures
    BY <1>7 DEF Store
  <2> QED
    BY <1>1, <1>7, <2>1, StoreStep, CaptureStays DEF ReporterIInv
<1>8. CASE Refuse
  <2>1. /\ report.at = "posted" /\ report' = [report EXCEPT !.at = "refused"]
        /\ UNCHANGED <<captures, description, edits, sending, sentShown, reports, thanked, reportHistory>>
    BY <1>8 DEF Refuse, Moves
  <2>2. ReportIInv'
    BY <1>1, <2>1, ReportMoves
  <2> QED
    BY <1>1, <2>1, <2>2, CaptureStays DEF ReporterIInv
<1>9. CASE Thank
  <2>1. UNCHANGED captures
    BY <1>9 DEF Thank
  <2> QED
    BY <1>1, <1>9, <2>1, ThankStep, CaptureStays DEF ReporterIInv
<1>10. CASE FailReport
  <2>1. UNCHANGED captures
    BY <1>10 DEF FailReport
  <2> QED
    BY <1>1, <1>10, <2>1, FailReportStep, CaptureStays DEF ReporterIInv
<1>11. CASE Close
  <2>1. UNCHANGED captures
    BY <1>11 DEF Close
  <2> QED
    BY <1>1, <1>11, <2>1, CloseStep, CaptureStays DEF ReporterIInv
<1> QED
  BY <1>2, <1>3, <1>4, <1>5, <1>6, <1>7, <1>8, <1>9, <1>10, <1>11 DEF ReporterNext

-----------------------------------------------------------------------------
(* The callers together *)

CallersIInv == ClientIInv /\ BufferIInv /\ SessionIInv /\ PageIInv /\ ReporterIInv

LEMMA PageStays ==
    ASSUME PageIInv, UNCHANGED pageVars
    PROVE  PageIInv'
<1>1. UNCHANGED <<focus, loaded, left, asks, unsure, form, listed, commits, posted, linked>>
  BY DEF pageVars, formVars
<1>2. UNCHANGED <<status, began, list, tab, timer, dialog, rolled, modal>>
  BY DEF pageVars, listVars, dialogVars
<1> QED
  BY <1>1, <1>2 DEF PageIInv, ProjectPageTypeOK, AsksInv, FormInv, DialogInv, PollsInv, PostedAsClicked, RolledAsShown

LEMMA CallersStep ==
    ASSUME CallersIInv, [CallersNext]_<<clientVars, bufferVars, sessionVars, pageVars, otherVars>>
    PROVE  CallersIInv'
<1>1. ClientIInv'
  <2>1. [ClientNext]_clientVars
    BY DEF CallersNext
  <2> QED
    BY <2>1, ClientStep DEF CallersIInv
<1>2. BufferIInv'
  <2>1. [BufferNext]_bufferVars
    BY DEF CallersNext
  <2> QED
    BY <2>1, BufferStep DEF CallersIInv
<1>3. SessionIInv'
  <2>1. [SessionNext]_sessionVars
    BY DEF CallersNext
  <2> QED
    BY <2>1, SessionStep DEF CallersIInv
<1>4. PageIInv'
  <2>1. PageNext \/ UNCHANGED pageVars
    BY DEF CallersNext
  <2> QED
    BY <2>1, PageStep, PageStays DEF CallersIInv
<1>5. ReporterIInv'
  <2>1. ReporterNext \/ UNCHANGED reporterVars
    BY DEF CallersNext, otherVars
  <2>2. ASSUME UNCHANGED reporterVars PROVE ReporterIInv'
    <3>1. UNCHANGED captures /\ UNCHANGED reporterForm
      BY <2>2 DEF reporterVars
    <3> QED
      BY <3>1, CaptureStays, ReportStays DEF CallersIInv, ReporterIInv
  <2> QED
    BY <2>1, <2>2, ReporterStep DEF CallersIInv
<1> QED
  BY <1>1, <1>2, <1>3, <1>4, <1>5 DEF CallersIInv

LEMMA CallersInvariant == CallersSpec => []CallersIInv
<1>1. CallersInit => CallersIInv
  BY ClientInitIInv, BufferInitIInv, SessionInitIInv, PageInitIInv, ReporterInitIInv
     DEF CallersInit, CallersIInv
<1>2. CallersIInv /\ [CallersNext]_<<clientVars, bufferVars, sessionVars, pageVars, otherVars>> => CallersIInv'
  BY CallersStep
<1> QED
  BY <1>1, <1>2, PTL DEF CallersSpec

\* An SDK client leaves nothing running once it is stopped, a buffer keeps what it took within its limits,
\* a session has its user's profile, a page sends what it shows, and a bug reporter puts the console back
\* and loses and doubles no report.
THEOREM CallersSound == CallersSpec => []CallersInv
<1>1. CallersIInv => CallersInv
  BY ClientSound, BufferSound, SessionSound, PageSound, ReporterSound DEF CallersIInv, CallersInv
<1> QED
  BY <1>1, CallersInvariant, PTL

\* A session of its own, of a valid token, is ended by a logout, a wrong current password, or the 401
\* of a failing database only (auth.interceptor.ts, middleware/auth.ts), whatever answers of requests
\* come late.
THEOREM SessionStaysKept == CallersSpec => SessionKept
<1>1. CallersIInv /\ [CallersNext]_<<clientVars, bufferVars, sessionVars, pageVars, otherVars>>
        => [clean /\ Valid(token) /\ token' = NoToken =>
               \/ \E t \in Tabs : LogsOut(t) \/ WrongCurrentPassword(t)
               \/ \E r \in calls : r.answer = "failed" /\ Unauthorized(r)]_token
  <2> SUFFICES ASSUME CallersIInv,
                      [CallersNext]_<<clientVars, bufferVars, sessionVars, pageVars, otherVars>>,
                      clean, Valid(token), token' = NoToken
               PROVE  \/ \E t \in Tabs : LogsOut(t) \/ WrongCurrentPassword(t)
                      \/ \E r \in calls : r.answer = "failed" /\ Unauthorized(r)
    OBVIOUS
  <2>1. [SessionNext]_sessionVars
    BY DEF CallersNext
  <2> QED
    BY <2>1, SessionStays DEF CallersIInv
<1> QED
  BY <1>1, CallersInvariant, PTL DEF CallersSpec, SessionKept
=============================================================================
