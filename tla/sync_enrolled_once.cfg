\* One replica that is stopped and started again.
SPECIFICATION Spec
CONSTANTS
  Replicas = {r1}
  Feed = {d1}
  NoReplica = none
  Enrolling = TRUE
  MinSync = 2
  StartupTTL = 3
  MaxFaults = 0
  MaxStops = 1
  MaxSevered = 0
PROPERTY EnrolledOnce
