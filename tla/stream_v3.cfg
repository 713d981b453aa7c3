\* A local and an upstream decision, about the same value or not.
SPECIFICATION V3Spec
CONSTANTS
  Machines = {m1}
  LocalIds = {a}
  UpstreamIds = {u}
  Writers = {w1}
  Cleaners = {}
  Durations = {2}
  Retention = 1
  MaxTime = 3
  MaxFaults = 1
  Values = {v1, v2}
SYMMETRY SomeValues
INVARIANTS
  V3Follows
  V3NoMissedWithdrawal
  V3NoMissedBan
CHECK_DEADLOCK FALSE
