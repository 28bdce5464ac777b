\* Three provisions or installs one after the other, or two and a seed beside them, killed anywhere.
SPECIFICATION MCSpec
CONSTANTS
    Cmds = {c1, c2, c3}
    Seeds = {s1}
    Plan <- MCPlan
    SeedKey = "seed"
    None = None
SYMMETRY Interchangeable
INVARIANTS
    TypeOK NotRepeated DoneIsInstalled EndsComplete
CHECK_DEADLOCK FALSE
