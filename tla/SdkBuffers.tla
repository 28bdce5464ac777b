----------------------------- MODULE SdkBuffers -----------------------------
(***************************************************************************)
(* A buffer of the Node SDK, of logs or of metrics                         *)
(* (sdk-node/src/logger.ts, metrics.ts), and the handler that stores what  *)
(* it sends (platform/api/src/routes/sdk.ts).  A flush takes the whole     *)
(* buffer; flushes overlap, their answers come in any order, an answer may *)
(* be lost after the server has stored the batch, and a request the client *)
(* gave up may reach the server later.  Entries are numbered as made.      *)
(***************************************************************************)
EXTENDS Naturals, Sequences, SequencesExt, FiniteSets

CONSTANTS
    MaxEntries,  \* bound: entries made
    MaxFaults,   \* bound: requests without an answer
    MaxPosts,    \* bound: requests at once, the late ones too
    Full,        \* entries that start a flush (50 logs, 100 metrics)
    MetricKept,  \* entries of a failed batch of metrics that are kept (50)
    MetricMax,   \* buffered metrics from which on nothing is kept (500)
    BodyMax,     \* logs that fit the body express.json() accepts (100 kB)
    BlankOnes        \* the messages that are empty

ASSUME SdkBuffersAssumption ==
    /\ {MaxEntries, MaxFaults, MaxPosts, MetricMax} \subseteq Nat
    /\ {MetricKept, BodyMax} \subseteq Nat \ {0} /\ BlankOnes \subseteq 1 .. MaxEntries
    /\ Full \in [{"logs", "metrics"} -> Nat \ {0}]

VARIABLES
    kind,       \* what the buffer holds
    configured, \* the client knows the platform's address
    ticking,    \* the flush timer runs
    buffer,     \* what waits
    posts,      \* requests under way, and whether the client still waits for the answer
    stored,     \* how often each entry is in Mongo
    made,       \* entries made
    faults,     \* requests that failed
    kept,       \* history: entries taken into the buffer
    answered        \* history: a flush was sent, the server has refused a batch

bufferVars == <<kind, configured, ticking, buffer, posts, stored, made, faults, kept, answered>>

Entries == 1 .. MaxEntries

BufferTypeOK ==
    /\ kind \in {"logs", "metrics"} /\ configured \in BOOLEAN /\ ticking \in BOOLEAN
    /\ buffer \in Seq(Entries)
    /\ \A p \in posts : p.batch \in Seq(Entries) \ {<<>>} /\ p.waited \in BOOLEAN
    /\ stored \in [Entries -> Nat] /\ made \in 0 .. MaxEntries /\ faults \in 0 .. MaxFaults
    /\ kept \subseteq Entries /\ answered \subseteq {"flushed", "refused"}

\* The module is imported: the timer runs, nobody knows the platform's address.
BufferInit ==
    /\ kind \in {"logs", "metrics"} /\ configured = FALSE /\ ticking = TRUE
    /\ buffer = <<>> /\ posts = {} /\ stored = [e \in Entries |-> 0]
    /\ made = 0 /\ faults = 0 /\ kept = {} /\ answered = {}

-----------------------------------------------------------------------------
(* The client *)

Configure ==
    /\ ~configured
    /\ configured' = TRUE
    /\ UNCHANGED <<kind, ticking, buffer, posts, stored, made, faults, kept, answered>>

\* flush, when there is something and somebody to send it to.
Post(content) ==
    IF configured /\ content # <<>>
    THEN /\ posts' = posts \cup {[batch |-> content, waited |-> TRUE]}
         /\ buffer' = <<>>
         /\ answered' = answered \cup {"flushed"}
         /\ Cardinality(posts') <= MaxPosts
    ELSE buffer' = content /\ UNCHANGED <<posts, answered>>

\* enqueue, which drops what is logged before configure, and record.
Add ==
    LET new == Append(buffer, made + 1) IN
    /\ made < MaxEntries
    /\ kind = "logs" => configured
    /\ made' = made + 1 /\ kept' = kept \cup {made + 1}
    /\ IF Len(new) >= Full[kind] THEN Post(new) ELSE buffer' = new /\ UNCHANGED <<posts, answered>>
    /\ UNCHANGED <<kind, configured, ticking, stored, faults>>

\* Mutant: the timer flushes full buffers only.
IntervalFull ==
    /\ ticking /\ configured /\ Len(buffer) >= Full[kind]
    /\ Post(buffer)
    /\ UNCHANGED <<kind, configured, ticking, stored, made, faults, kept>>

\* The timer's flush.
Interval ==
    /\ ticking /\ configured /\ buffer # <<>>
    /\ Post(buffer)
    /\ UNCHANGED <<kind, configured, ticking, stored, made, faults, kept>>

Stop ==
    /\ ticking
    /\ ticking' = FALSE
    /\ Post(buffer)
    /\ UNCHANGED <<kind, configured, stored, made, faults, kept>>

\* What the catch of a flush puts back: all logs; of the metrics the first ones, "to avoid memory bloat".
Requeue(batch) ==
    LET again == CASE kind = "logs" -> batch
                   [] kind = "metrics" /\ Len(buffer) >= MetricMax -> <<>>
                   [] kind = "metrics" /\ Len(buffer) < MetricMax ->
                          SubSeq(batch, 1, IF Len(batch) < MetricKept THEN Len(batch) ELSE MetricKept)
    IN buffer' = again \o buffer

-----------------------------------------------------------------------------
(* The server *)

\* express.json() refuses a large body, Mongoose a batch with an empty message.
Accepts(batch) == kind = "logs" => Len(batch) <= BodyMax /\ ToSet(batch) \cap BlankOnes = {}

Insert(batch) == stored' = [e \in Entries |-> stored[e] + (IF e \in ToSet(batch) THEN 1 ELSE 0)]

\* The request is served and answered, whether anybody waits for the answer or not.
Serve(p) ==
    /\ p \in posts
    /\ posts' = posts \ {p}
    /\ IF Accepts(p.batch)
       THEN Insert(p.batch) /\ UNCHANGED <<buffer, answered>>
       ELSE /\ IF p.waited THEN Requeue(p.batch) ELSE UNCHANGED buffer
            /\ answered' = answered \cup {"refused"}
            /\ UNCHANGED stored
    /\ UNCHANGED <<kind, configured, ticking, made, faults, kept>>

\* The client gets no answer or a failure: the request is lost, or it was stored, or it comes late.
Fail(p) ==
    /\ p \in posts /\ p.waited
    /\ faults < MaxFaults
    /\ faults' = faults + 1
    /\ \/ posts' = posts \ {p} /\ UNCHANGED stored
       \/ posts' = posts \ {p} /\ Accepts(p.batch) /\ Insert(p.batch)
       \/ posts' = (posts \ {p}) \cup {[p EXCEPT !.waited = FALSE]} /\ UNCHANGED stored
    /\ Requeue(p.batch)
    /\ UNCHANGED <<kind, configured, ticking, made, kept, answered>>

BufferNext ==
    \/ Configure \/ Add \/ Interval \/ Stop
    \/ \E p \in posts : Serve(p) \/ Fail(p)

\* The timer fires; the server answers, and fails only so many requests.
BufferFairness ==
    /\ WF_bufferVars(\E p \in posts : Serve(p))
    /\ WF_bufferVars(Interval)

-----------------------------------------------------------------------------
(* Properties *)

\* However flushes overlap and fail, a log that was taken is in the buffer, on its way or stored.
LogsKept ==
    kind = "logs" => \A l \in kept :
        \/ l \in ToSet(buffer) \/ stored[l] > 0
        \/ \E p \in posts : p.waited /\ l \in ToSet(p.batch)

\* An entry is stored once, and again at most once for each request that seemed to fail.
StoredOnce == \A e \in Entries : stored[e] <= 1 + faults

\* "to avoid memory bloat": requests in flight that all fail do not fill the buffer of the metrics.
MetricsBounded ==
    kind = "metrics" /\ "flushed" \in answered =>
        Len(buffer) < MetricMax + MetricKept \/ Len(buffer) < Full.metrics

\* While the timer runs and no batch was refused, there comes a time again and again when every
\* log taken so far is stored.
LogsDelivered ==
    []<>(kind = "logs" => (\A l \in kept : stored[l] > 0) \/ "refused" \in answered \/ ~ticking)

\* Flushes that overlap and fail lose no log, store nothing twice of themselves and stay in bounds.
BufferInv == BufferTypeOK /\ LogsKept /\ StoredOnce /\ MetricsBounded
=============================================================================
