SPECIFICATION Spec
CONSTANTS
    A = A
    B = B
    P = P
    Q = Q
    Nil = Nil
    None = None
    Device <- MCDevice
    Path <- MCPath
    Existing <- MCNone
    MaxVersion = 1
    MaxDeletes = 1
    MaxFaults = 1
    MaxRevision = 20
    Overlapping = FALSE
SYMMETRY Symmetry
PROPERTIES
    DeletionStands
