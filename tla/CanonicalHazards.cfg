SPECIFICATION Spec
CONSTANTS
  Device = {a, b}
  Op = {o1}
  LockName = {n1, n2, n3}
  Canonical = Canonical
  Absent = Absent
  Unread = Unread
  Unreadable = Unreadable
  Hazards = {"late-effect", "lease-outlived", "stale-absence"}
  MaxFaults = 1
  MaxCrashes = 0
SYMMETRY Symmetry
INVARIANT AcknowledgedWasPublished
PROPERTY RecoveryPublishesObserved
