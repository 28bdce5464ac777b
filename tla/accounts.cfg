\* The administrator and a former demo account, one custom role, two requests and one check at a time.
SPECIFICATION Spec
CONSTANTS
    Users = {admin, demo}
    Admin = admin
    Demo = {demo}
    Roles = {custom}
    NoRole = norole
    Perms = {p}
    Preset <- MCPreset
    Reqs = {r1, r2}
    Checks = {k1}
    Callers = {admin}
    MaxGen = 2
    MaxPw = 2
    MaxRequests = 2
    TTL = 1
    MaxAwait = 1
SYMMETRY Interchangeable
INVARIANTS
    AccountsInv PermissionsInv
CHECK_DEADLOCK FALSE
