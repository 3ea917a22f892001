CONSTANTS
  x = x
  y = y
  z = z
  Files = {x, y}
  Excluded = {z}
  Kinds = {"enable", "rotate", "disable"}
  Workers = 1
  MaxEvent = 1
  MaxHelp = 1
  MaxFault = 2
SPECIFICATION MCSpec
INVARIANTS
  SidesConsistent
  LiveReadable
  LeavesNothing
PROPERTIES
  RemovalsAuthorized
  TransitionEnds
CHECK_DEADLOCK FALSE
