\* Two replicas' cleaners, a local decision and one that is renewed at will.
SPECIFICATION FairSpec
CONSTANTS
  Machines = {}
  LocalIds = {a}
  UpstreamIds = {u}
  Writers = {w1}
  Cleaners = {c1, c2}
  Durations = {0, 1}
  Retention = 0
  MaxTime = 2
  MaxFaults = 1
PROPERTY ExpiredLeaves
CHECK_DEADLOCK FALSE
