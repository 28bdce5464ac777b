\* Two commands and the lock; or provisions one after the other with three failures, kills, troubles
\* or installs by name in between; or a settings page of two groups of fields with two requests at a
\* time.
SPECIFICATION MCSpec
CONSTANTS
    Procs = {p1, p2}
    Inodes = {i1, i2, i3}
    None = None
    Setup <- MCSetup
    MaxMishaps = 3
    Slots = {q1, q2}
    FieldGroups = {"login", "linking"}
    LoginGroup = "login"
    MaxTyped = 2
    MaxActs = 2
INVARIANTS
    ProvisionInv
PROPERTIES
    ImplementsMutex StaleLockFreed SettledPortainerKept ReprovisionCompletes
\* Both commands may have ended.
CHECK_DEADLOCK FALSE
