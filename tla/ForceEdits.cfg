CONSTANTS
  x = x
  y = y
  Files = {x, y}
  MaxEdit = 2
  MaxFault = 1
SPECIFICATION Spec
CHECK_DEADLOCK FALSE
INVARIANT EditsSurvive
