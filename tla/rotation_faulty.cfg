\* One rotation at a time, the hostile faults.
SPECIFICATION Spec
CONSTANTS
    Rotators = {r1}
    Faults <- MCHostile
    MaxRotations = 2
    MaxCrashes = 0
INVARIANTS
    NoUnappliedPassword
PROPERTIES
    WriteAhead
CHECK_DEADLOCK FALSE
