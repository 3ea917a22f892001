SPECIFICATION Spec
CONSTANTS
  Device = {a, b}
  Op = {o1, o2}
  LockName = {n1, n2, n3, n4}
  Canonical = Canonical
  Absent = Absent
  Unread = Unread
  Unreadable = Unreadable
  Hazards = {"lease-outlived"}
  MaxFaults = 0
  MaxCrashes = 0
SYMMETRY Symmetry
INVARIANT AcknowledgedSurvive
