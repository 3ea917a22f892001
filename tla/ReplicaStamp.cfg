\* MaxRevision ends behaviours; the violation comes before.
SPECIFICATION Spec
CONSTANTS
    A = A
    B = B
    P = P
    Q = Q
    Nil = Nil
    None = None
    Device <- MCDevice
    Path <- MCPath
    Existing <- MCPath
    MaxVersion = 3
    MaxDeletes = 0
    MaxFaults = 0
    MaxRevision = 5
    Overlapping = TRUE
SYMMETRY Symmetry
INVARIANTS
    EditsSurvive
CHECK_DEADLOCK FALSE
