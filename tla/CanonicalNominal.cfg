SPECIFICATION Spec
CONSTANTS
  Device = {a, b}
  Op = {o1, o2}
  LockName = {n1, n2, n3}
  Canonical = Canonical
  Absent = Absent
  Unread = Unread
  Unreadable = Unreadable
  Hazards = {}
  MaxFaults = 1
  MaxCrashes = 1
SYMMETRY Symmetry
INVARIANTS
  OneAuthority
  AcknowledgedSurvive
  RolledBackLeavesNothing
PROPERTIES
  ImplementsRegister
