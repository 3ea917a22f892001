\* No session is cut off: the revisions stay below MaxRevision.
SPECIFICATION Spec
CONSTANTS
    A = A
    B = B
    P = P
    Q = Q
    Nil = Nil
    None = None
    Device <- MCDevice
    Path <- MCTwoPaths
    Existing <- MCPath
    MaxVersion = 2
    MaxDeletes = 1
    MaxFaults = 0
    MaxRevision = 5
    Overlapping = FALSE
INVARIANTS
  EditsSurvive
PROPERTIES
  DeletionStands
  Convergence
