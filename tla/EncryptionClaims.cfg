\* Three claims that do not hold, one at a time: replace the last line by
\*   PROPERTY Retired          a checkpoint is never retired
\*   PROPERTY RemovedIsNamed   a deletion in flight is overtaken
CONSTANTS
  x = x
  y = y
  z = z
  Files = {x, y}
  Excluded = {z}
  Kinds = {"enable", "rotate", "disable"}
  Workers = 1
  MaxEvent = 1
  MaxHelp = 1
  MaxFault = 1
SPECIFICATION Spec
CHECK_DEADLOCK FALSE
INVARIANT TransitionIsMaintained
