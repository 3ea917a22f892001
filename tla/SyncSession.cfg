CONSTANTS
    Session = {s1, s2}
    NoSession = NoSession
    MaxPauses = 2
SPECIFICATION FairSpec
INVARIANTS
  OneActive
  PausedNotObserved
PROPERTIES
  FirstComeFirstServed
  EveryRequestAnswered
CHECK_DEADLOCK FALSE
