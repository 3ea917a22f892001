SPECIFICATION Spec
CONSTANTS
    A = A
    B = B
    P = P
    Q = Q
    Nil = Nil
    None = None
    Device <- MCDevice
    Path <- MCPath
    Existing <- MCPath
    MaxVersion = 1
    MaxDeletes = 0
    MaxFaults = 1
    MaxRevision = 20
    Overlapping = FALSE
SYMMETRY Symmetry
INVARIANTS
    ConflictHasTwoSides
