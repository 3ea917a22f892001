SPECIFICATION Spec
CONSTANTS
  Device = {a, b}
  Op = {o1, o2}
  LockName = {n1, n2}
  Canonical = Canonical
  Absent = Absent
  Unread = Unread
  Unreadable = Unreadable
  Hazards = {"stale-absence"}
  MaxFaults = 0
  MaxCrashes = 0
SYMMETRY Symmetry
PROPERTY SeedNeedsAbsence
