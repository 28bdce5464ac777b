\* One agent validates, one executes and one human decides at a time, over two commands, and saves may
\* be lost; or one request with a token and two administrators of it; or one
\* command of at most four words on two lines; or two calls of MCP tools at a time.
SPECIFICATION MCSpec
CONSTANTS
    Validators = {v1}
    Executors = {e1}
    Humans = {m1}
    Commands = {"kubectl delete", "helm uninstall"}
    TTL = 1
    SaveMayFail = TRUE
    MaxRows = 2
    MaxTime = 2
    MaxRuns = 2
    Agents = {a1}
    Admins = {h1, h2}
    Scopes = {"read", "execute"}
    MaxRevocations = 1
    Words = {"kubectl", "get", "scale", "delete", "delete'x'", "ab", "a'b'", "ps'x'", ";", "'c"}
    Spelled <- MCSpelled
    ReadAlone = {"ps'x'"}
    Reads <- MCReads
    Mutations <- MCMutations
    Destructive <- MCDestructive
    Forbidden <- MCForbidden
    Chaining = {";"}
    Quoting = {"'c"}
    MaxLines = 2
    MaxWords = 2
    Calls = {k1, k2}
    HasAgent = {TRUE, FALSE}
    MaxLogins = 2
SYMMETRY Interchangeable
INVARIANTS
    AgentsInv ApprovedRun DecisionsStand LoneRevocationSticks
CHECK_DEADLOCK FALSE
