CONSTANTS
  x = x
  y = y
  Files = {x, y}
  MaxEdit = 2
  MaxFault = 2
SPECIFICATION MCSpec
INVARIANTS
  LateEditsSurvive
  RecordsConsistent
  NoEditForgotten
PROPERTIES
  NeverReplayed
  ExcludedStay
  Finishes
CHECK_DEADLOCK FALSE
