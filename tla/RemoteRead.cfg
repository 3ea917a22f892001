SPECIFICATION Spec
CONSTANTS
    R1 = R1
    R2 = R2
    R3 = R3
    Read <- MCReads
    Replaceable <- MCReads
    MaxRetries = 2
    Limits <- MCLimits
    ReserveLimit = 2
    MaxSettings = 1
    MaxInterrupts = 1
INVARIANTS
  PermitsCounted
  TwoNatives
  NobodyWaitsForRoom
PROPERTIES
  NothingFromBefore
  EveryReadAnswered
\* The reads end.
CHECK_DEADLOCK FALSE
