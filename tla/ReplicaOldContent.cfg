SPECIFICATION Spec
CONSTANTS
    A = A
    B = B
    P = P
    Q = Q
    Nil = Nil
    None = None
    Device <- MCDevice
    Path <- MCPath
    Existing <- MCPath
    MaxVersion = 1
    MaxDeletes = 1
    MaxFaults = 0
    MaxRevision = 20
    Overlapping = TRUE
SYMMETRY Symmetry
INVARIANTS
    EditsSurvive
