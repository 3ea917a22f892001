SPECIFICATION Spec
CONSTANTS
    R1 = R1
    R2 = R2
    R3 = R3
    Read <- MCThree
    Replaceable <- MCThree
    MaxRetries = 0
    Limits <- MCLimits
    ReserveLimit = 2
    MaxSettings = 2
    MaxInterrupts = 1
SYMMETRY Symmetry
INVARIANTS
    NobodyWaitsForRoom
PROPERTIES
    GrantsWithinLimit
    OldestFirst
\* The reads end.
CHECK_DEADLOCK FALSE
