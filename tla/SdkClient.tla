------------------------------ MODULE SdkClient ------------------------------
(***************************************************************************)
(* The life of Node SDK clients of one project and environment             *)
(* (sdk-node/src/client.ts, registration.ts, config.ts, db/*.ts) and the   *)
(* rows of their services on the server (platform/api/src/routes/sdk.ts).  *)
(* init and shutdown run beside each other when a process is told to stop  *)
(* while it starts; requests are lost, or reach the server after the       *)
(* client has given them up.                                               *)
(***************************************************************************)
EXTENDS Naturals, FiniteSets

CONSTANTS
    Clients,   \* processes with an SDK client
    Services,  \* names of services
    Project,   \* the service that has the project's name
    NameOf,    \* the service name each client registers
    DbClients, \* the clients that use a database
    Redis,     \* those of them whose database is Redis
    MaxRetries \* reconnects in a row (5)

ASSUME SdkClientAssumption ==
    /\ Project \in Services /\ NameOf \in [Clients -> Services] /\ DbClients \subseteq Clients
    /\ Redis \subseteq DbClients /\ MaxRetries \in Nat

VARIABLES
    registry, \* the status of each service's registration
    msgs,     \* requests on their way to the server
    cl        \* the clients

clientVars == <<registry, msgs, cl>>

\* A database manager: its pool, whether it believes to be connected, its attempts; what the client
\* ioredis that it made last does by itself, and whether earlier ones were left to themselves.
NoDb == [made |-> FALSE, trying |-> FALSE, connected |-> FALSE, ending |-> FALSE, timer |-> FALSE,
         retries |-> 0, failures |-> 0, link |-> "none", left |-> FALSE]
New == [ini |-> "new", shut |-> "no", reg |-> "none", beating |-> FALSE, refreshing |-> FALSE,
        db |-> NoDb, orderly |-> FALSE]

Msg(c, kind, to) == [from |-> c, kind |-> kind, to |-> to]
Kinds == {"register", "deregister", "heartbeat"}

ClientTypeOK ==
    /\ registry \in [Services -> {"none", "online", "offline"}]
    /\ msgs \subseteq [from : Clients, kind : Kinds, to : Services \cup {"none"}]
    /\ \A c \in Clients :
        /\ cl[c].ini \in {"new", "register", "load", "connect", "done"}
        /\ cl[c].shut \in {"no", "deregister", "settle", "down"}
        /\ cl[c].reg \in {"none", NameOf[c]}
        /\ cl[c].db.retries \in 0 .. MaxRetries /\ cl[c].db.failures \in Nat
        /\ cl[c].db.link \in {"none", "up", "dials"}

ClientInit ==
    /\ registry = [s \in Services |-> "none"]
    /\ msgs = {}
    /\ cl = [c \in Clients |-> New]

-----------------------------------------------------------------------------
(* init *)

Become(c, new) == cl' = [cl EXCEPT ![c] = new]

\* registration.register is sent; the buffers learn the address.
Begin(c) ==
    /\ cl[c].ini = "new" /\ cl[c].shut = "no"
    /\ Become(c, [cl[c] EXCEPT !.ini = "register"])
    /\ msgs' = msgs \cup {Msg(c, "register", NameOf[c])}
    /\ UNCHANGED registry

\* "Registration failed (non-blocking)": the client goes on without an id, and never asks again.
Unregistered(c) ==
    /\ cl[c].ini = "register"
    /\ Become(c, [cl[c] EXCEPT !.ini = "load"])
    /\ msgs' \in {msgs, msgs \ {Msg(c, "register", NameOf[c])}}
    /\ UNCHANGED registry

\* After configClient.loadAll, whatever it found: the timers start.
Loaded(c) ==
    /\ cl[c].ini = "load"
    /\ Become(c, [cl[c] EXCEPT !.ini = IF c \in DbClients THEN "connect" ELSE "done",
                               !.beating = TRUE, !.refreshing = TRUE])
    /\ UNCHANGED <<registry, msgs>>

\* The credentials have come, or an empty answer: the manager is made and connects.
Connect(c) ==
    /\ cl[c].ini = "connect" /\ ~cl[c].db.made
    /\ Become(c, [cl[c] EXCEPT !.db.made = TRUE, !.db.trying = TRUE])
    /\ UNCHANGED <<registry, msgs>>

-----------------------------------------------------------------------------
(* The database manager *)

Continues(c, new) == Become(c, [new EXCEPT !.ini = IF @ = "connect" THEN "done" ELSE @])

Connected(c) ==
    /\ cl[c].db.trying
    /\ Continues(c, [cl[c] EXCEPT !.db.trying = FALSE, !.db.connected = TRUE, !.db.retries = 0,
                                  !.db.failures = 0, !.db.link = IF c \in Redis THEN "up" ELSE @])
    /\ UNCHANGED <<registry, msgs>>

\* scheduleReconnect.
Retry(db) ==
    IF db.retries >= MaxRetries THEN db ELSE [db EXCEPT !.retries = @ + 1, !.timer = TRUE]

Refused(c) ==
    LET db == [cl[c].db EXCEPT !.trying = FALSE, !.connected = FALSE, !.failures = @ + 1,
                               !.link = IF c \in Redis THEN "dials" ELSE @] IN
    /\ cl[c].db.trying
    /\ Continues(c, [cl[c] EXCEPT !.db = Retry(db)])
    /\ UNCHANGED <<registry, msgs>>

\* The timer makes another client; the one before it is not closed.
Reconnect(c) ==
    /\ cl[c].db.timer
    /\ Become(c, [cl[c] EXCEPT !.db.timer = FALSE, !.db.trying = TRUE,
                               !.db.left = @ \/ cl[c].db.link # "none", !.db.link = "none"])
    /\ UNCHANGED <<registry, msgs>>

\* Whatever the manager does, a client ioredis that was refused or has lost its connection dials on
\* until it gets through; the manager does not see it.
Redial(c) ==
    /\ cl[c].db.link # "none" /\ ~cl[c].db.ending
    /\ Become(c, [cl[c] EXCEPT !.db.link = IF @ = "up" THEN "dials" ELSE "up"])
    /\ UNCHANGED <<registry, msgs>>

\* disconnect has closed the pool, or the last client ioredis: the QUIT of one that dials may fail.
Ended(c) ==
    /\ cl[c].db.ending
    /\ \/ Become(c, [cl[c] EXCEPT !.db.ending = FALSE, !.db.connected = FALSE, !.db.link = "none"])
       \/ /\ cl[c].db.link = "dials"
          /\ Become(c, [cl[c] EXCEPT !.db.ending = FALSE])
    /\ UNCHANGED <<registry, msgs>>

-----------------------------------------------------------------------------
(* Heartbeats and shutdown *)

Beat(c) ==
    /\ cl[c].beating
    /\ msgs' = msgs \cup {Msg(c, "heartbeat", cl[c].reg)}
    /\ UNCHANGED <<registry, cl>>

\* shutdown, at any time: what is there is stopped, the pool starts to close, and the service of
\* the project's name is deregistered, whatever name was registered.
Shutdown(c) ==
    /\ cl[c].ini # "new" /\ cl[c].shut = "no"
    /\ Become(c, [cl[c] EXCEPT !.shut = "deregister", !.beating = FALSE, !.refreshing = FALSE,
                               !.db.ending = cl[c].db.made,
                               !.orderly = /\ cl[c].ini = "done" /\ ~cl[c].db.timer /\ ~cl[c].db.trying
                                           /\ cl[c].db.link # "dials" /\ ~cl[c].db.left])
    /\ msgs' = msgs \cup {Msg(c, "deregister", Project)}
    /\ UNCHANGED registry

\* No answer to deregister; the request may still be on its way.
Undelivered(c) ==
    /\ cl[c].shut = "deregister"
    /\ Become(c, [cl[c] EXCEPT !.shut = "settle"])
    /\ msgs' \in {msgs, msgs \ {Msg(c, "deregister", Project)}}
    /\ UNCHANGED registry

Down(c) ==
    /\ cl[c].shut = "settle" /\ ~cl[c].db.ending
    /\ Become(c, [cl[c] EXCEPT !.shut = "down"])
    /\ UNCHANGED <<registry, msgs>>

-----------------------------------------------------------------------------
(* The server *)

\* The answer reaches the client that waits for it, or is lost.
Register(m) ==
    /\ m.kind = "register"
    /\ registry' = [registry EXCEPT ![m.to] = "online"]
    /\ \/ cl[m.from].ini = "register" /\ Become(m.from, [cl[m.from] EXCEPT !.ini = "load", !.reg = m.to])
       \/ UNCHANGED cl

\* Only a service that is registered is found.
Deregister(m) ==
    /\ m.kind = "deregister"
    /\ registry' = [registry EXCEPT ![m.to] = IF @ = "none" THEN @ ELSE "offline"]
    /\ \/ cl[m.from].shut = "deregister" /\ Become(m.from, [cl[m.from] EXCEPT !.shut = "settle"])
       \/ UNCHANGED cl

\* Mutant: a heartbeat updates the time it was seen, and not the status.
Seen(m) ==
    /\ m.kind = "heartbeat"
    /\ UNCHANGED <<registry, cl>>

\* Without an id, some service of the project is found.
Heartbeat(m) ==
    /\ m.kind = "heartbeat"
    /\ \/ \E s \in Services : /\ registry[s] # "none"
                              /\ m.to \in {s, "none"}
                              /\ registry' = [registry EXCEPT ![s] = "online"]
       \/ (\A s \in Services : registry[s] = "none") /\ UNCHANGED registry
    /\ UNCHANGED cl

Handle(m) ==
    /\ m \in msgs
    /\ msgs' = msgs \ {m}
    /\ Register(m) \/ Deregister(m) \/ Heartbeat(m)

ClientNext ==
    \/ \E c \in Clients :
        \/ Begin(c) \/ Unregistered(c) \/ Loaded(c) \/ Connect(c)
        \/ Connected(c) \/ Refused(c) \/ Reconnect(c) \/ Redial(c) \/ Ended(c)
        \/ Beat(c) \/ Shutdown(c) \/ Undelivered(c) \/ Down(c)
    \/ \E m \in msgs : Handle(m)

\* The heartbeat timer fires, and the server handles what it gets.
ClientFairness ==
    /\ \A c \in Clients : WF_clientVars(Beat(c))
    /\ \A c \in Clients :
          WF_clientVars(\E m \in msgs : m.from = c /\ m.kind = "heartbeat" /\ Handle(m))

-----------------------------------------------------------------------------
(* Properties *)

\* A client that was up when it was shut down, with nothing connecting and no attempt at Redis refused
\* before, leaves no timer and no connection.
NothingLeftRunning ==
    \A c \in Clients : cl[c].shut = "down" /\ cl[c].orderly =>
        /\ ~cl[c].beating /\ ~cl[c].refreshing
        /\ ~cl[c].db.connected /\ ~cl[c].db.timer /\ ~cl[c].db.trying
        /\ cl[c].db.link = "none" /\ ~cl[c].db.left

\* A manager tries a database that cannot be reached a bounded number of times in a row; what ioredis
\* does by itself is not bounded.
RetriesBounded == \A c \in Clients : cl[c].db.failures <= MaxRetries + 1

\* However often other clients deregister the project's service, one that got its id and keeps
\* beating is shown online again.
ShownOnline ==
    \A c \in Clients : []<>(cl[c].reg # "none" /\ cl[c].beating => registry[NameOf[c]] = "online")

\* A client stops what it started: everything at shutdown, and its attempts at a database in time.
ClientInv == ClientTypeOK /\ NothingLeftRunning /\ RetriesBounded
=============================================================================
