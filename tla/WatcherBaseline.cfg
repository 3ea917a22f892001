CONSTANTS
  a = a
  b = b
  Paths = {a, b}
  MaxVersion = 3
  MaxEvent = 2
  MaxFault = 1
SPECIFICATION Spec
INVARIANT NothingLost
CHECK_DEADLOCK FALSE
