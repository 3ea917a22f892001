\* One order of steps (Schedule); the counterexample is far too deep for all of them.
SPECIFICATION Spec
CONSTANTS
    A = A
    B = B
    P = P
    Q = Q
    Nil = Nil
    None = None
    Device <- MCDevice
    Path <- MCPath
    Existing <- MCNone
    MaxVersion = 5
    MaxDeletes = 0
    MaxFaults = 0
    MaxRevision = 20
    Overlapping = TRUE
ACTION_CONSTRAINT Schedule
INVARIANTS
    NoQueueHasGap
CHECK_DEADLOCK FALSE
