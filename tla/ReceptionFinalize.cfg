SPECIFICATION Spec
CONSTANTS
  a = a
  b = b
  Files = {a, b}
  MaxEdit = 1
  MaxOther = 1
  MaxFault = 1
INVARIANTS
  LateEditsKept
CHECK_DEADLOCK FALSE
