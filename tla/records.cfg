\* Two provisioners and one request on the secret at a time, one failure; two editors of the settings;
\* three of two uploads, a confirmation and a deletion; two backups and two restores over two providers.
SPECIFICATION MCSpec
CONSTANTS
    Writers = {p1, p2, w1}
    Provisioners = {p1, p2}
    Ids = {s1, s2}
    Nowhere = nowhere
    MaxValues = 3
    MaxVersion = 2
    MaxFaults = 1
    Editors = {e1, e2}
    Tokens = {"t1"}
    Orgs = {"o1", "o2"}
    Blank = "blank"
    MaxPuts = 3
    MaxTroubles = 1
    Uploads = {u1, u2}
    Confirms = {c1}
    Deletes = {d1}
    MaxCalls = 3
    NBackups = 2
    Providers = {o1, o2}
    NRestores = 2
    PoolSize = 1
    MaxEvents = 1
    Missing = missing
SYMMETRY Interchangeable
INVARIANTS
    SecretsInv PasswordInv SettingsInv FileInv BackupsInv
PROPERTIES
    DroppedWithDump
CHECK_DEADLOCK FALSE
