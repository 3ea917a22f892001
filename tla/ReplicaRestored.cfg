\* One order of steps (Restoring); too deep for all of them.
SPECIFICATION Spec
CONSTANTS
    A = A
    B = B
    P = P
    Q = Q
    Nil = Nil
    None = None
    Device <- MCDevice
    Path <- MCTwoPaths
    Existing <- MCPath
    MaxVersion = 4
    MaxDeletes = 1
    MaxFaults = 0
    MaxRevision = 20
    Overlapping = FALSE
ACTION_CONSTRAINT Restoring
INVARIANTS
    EditsSurvive
CHECK_DEADLOCK FALSE
