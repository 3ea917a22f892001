\* Sessions stop at MaxRevision: overlapping ones can publish for ever.
SPECIFICATION Spec
CONSTANTS
    A = A
    B = B
    P = P
    Q = Q
    Nil = Nil
    None = None
    Device <- MCDevice
    Path <- MCPath
    Existing <- MCPath
    MaxVersion = 1
    MaxDeletes = 1
    MaxFaults = 1
    MaxRevision = 3
    Overlapping = TRUE
SYMMETRY Symmetry
INVARIANTS
  QueueConsistent
PROPERTIES
  SequenceUsedOnce
CHECK_DEADLOCK FALSE
