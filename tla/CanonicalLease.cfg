SPECIFICATION FairSpec
CONSTANTS
  Device = {a, b}
  Op = {o1}
  LockName = {n1, n2, n3}
  Canonical = Canonical
  Absent = Absent
  Unread = Unread
  Unreadable = Unreadable
  Hazards = {}
  MaxFaults = 0
  MaxCrashes = 1
PROPERTY AbandonedLockRecovered
