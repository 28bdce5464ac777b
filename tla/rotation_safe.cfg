\* One rotation at a time, the faults a rotation is documented to survive.
SPECIFICATION FairSpec
CONSTANTS
    Rotators = {r1}
    Faults <- MCSurvivable
    MaxRotations = 2
    MaxCrashes = 2
INVARIANTS
    TypeOK
    Recoverable
    SettledInSync
PROPERTIES
    HealsAfterCrash
CHECK_DEADLOCK FALSE
