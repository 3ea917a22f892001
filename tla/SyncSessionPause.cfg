CONSTANTS
    Session = {s1, s2, s3}
    NoSession = NoSession
    MaxPauses = 2
SYMMETRY Symmetry
SPECIFICATION Spec
INVARIANTS PauseStaysVisible
CHECK_DEADLOCK FALSE
