CONSTANTS
  a = a
  b = b
  Paths = {a, b}
  MaxVersion = 3
  MaxEvent = 2
  MaxFault = 1
SPECIFICATION Spec
INVARIANTS
  IndexConsistent
PROPERTIES
  OnlyUnconfirmedLost
  Settles
CHECK_DEADLOCK FALSE
