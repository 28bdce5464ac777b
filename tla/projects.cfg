CONSTANTS
    Ids = {i1, i2}
    Names = {n1, n2}
    EnvNames <- MCEnvNames
    Domains = {d}
    Base = base
    Repos = {g1, g2}
    None = none
    Users = {a, u}
    Admins = {a}
    Leads = {u}
    Reqs = {r1, r2}
    MaxRequests = 2
    Deployers = {d1, d2}
    Registrants = {s1}
    NoWriter = noWriter
    MaxPolls = 2
    EarlyPolls = 1
    MaxMishaps = 1
SYMMETRY Symmetry
SPECIFICATION MCSpec
INVARIANTS
    PlacesInv
PROPERTIES
    OwnerKept
\* The bound on requests ends every behaviour.
CHECK_DEADLOCK FALSE
