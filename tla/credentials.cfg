CONSTANTS
    Commands = {c1, c2}
    MaxRuns = 3
    MaxRotations = 1
    MaxPasswords = 2
SYMMETRY Symmetry
SPECIFICATION CredentialsSpec
CONSTRAINT LastAlone
INVARIANTS
    CredentialsInv
PROPERTIES
    SavedBeforeAlter
\* The bound on commands ends every behaviour.
CHECK_DEADLOCK FALSE
