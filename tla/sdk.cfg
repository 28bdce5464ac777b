\* Two SDK clients, or one with Redis; or a buffer with four entries, two faults and three posts at a time; or two
\* tabs of a browser with two users, two tokens, two requests at a time and one accident; or a page with two requests
\* at a time; or two bug reporters that keep one entry each; or the form of one.
SPECIFICATION CallersSpec
CONSTANTS
    Clients = {1, 2, 3}
    Services = {"project", "own"}
    Project = "project"
    NameOf <- MCNames
    DbClients = {3}
    Redis = {3}
    MaxRetries = 1
    MaxEntries = 4
    MaxFaults = 2
    MaxPosts = 3
    Full <- MCFull
    MetricKept = 1
    MetricMax = 2
    BodyMax = 3
    BlankOnes = {4}
    People = {u1, u2}
    Nobody = nobody
    Tabs = {t1, t2}
    MaxCalls = 2
    MaxTokens = 2
    MaxEvents = 1
    Branches = {b1, b2}
    Main = b1
    Release = v1
    Secrets = {s1, s2}
    Pods = {p1, p2}
    Nil = nil
    MaxAsks = 2
    MaxDeploys = 2
    Reporters = {w1, w2}
    Kept = 1
    MaxPrinted = 2
    MaxEdits = 2
    MaxReports = 2
INVARIANTS
    CallersInv
PROPERTIES
    ShownOnline LogsDelivered SessionKept TabsFollow PageCatchesUp
\* Clients are shut down and the bound on entries is reached: the system may stop.
CHECK_DEADLOCK FALSE
