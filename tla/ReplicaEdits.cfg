\* No session is cut off: the revisions stay below MaxRevision.
SPECIFICATION Spec
CONSTANTS
    A = A
    B = B
    P = P
    Q = Q
    Nil = Nil
    None = None
    Device <- MCDevice
    Path <- MCPath
    Existing <- MCPath
    MaxVersion = 2
    MaxDeletes = 0
    MaxFaults = 0
    MaxRevision = 6
    Overlapping = TRUE
INVARIANTS
    EditsSurvive
PROPERTIES
    Convergence
