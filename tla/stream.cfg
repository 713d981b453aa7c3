\* One decision of the upstream feed, one agent, one writer, one cleaner.
SPECIFICATION Spec
CONSTANTS
  Machines = {m1}
  LocalIds = {}
  UpstreamIds = {u}
  Writers = {w1}
  Cleaners = {c1}
  Durations = {0, 1}
  Retention = 1
  MaxTime = 4
  MaxFaults = 1
INVARIANTS
  TypeOK
  NoMissedWithdrawal
  NoMissedBan
  StreamInv
PROPERTY PurgeSparesPullers
CHECK_DEADLOCK FALSE
