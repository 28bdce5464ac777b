\* Two deployments of one branch, two requests on them at a time, one failure.
SPECIFICATION MCSpec
CONSTANTS
    MaxRows = 2
    MaxPolls = 2
    EarlyPolls = 2
    MaxFaults = 1
    MaxRequests = 2
    Origins <- AnyThenRollback
    MaxOps = 2
INVARIANTS
    RowsTrue
PROPERTIES
    FollowupKeepsDeployed JobsSettle
CHECK_DEADLOCK FALSE
