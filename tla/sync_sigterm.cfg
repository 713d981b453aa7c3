\* One replica, one SIGTERM, no other fault.
SPECIFICATION Spec
CONSTANTS
  Replicas = {r1}
  Feed = {d1}
  NoReplica = none
  Enrolling = FALSE
  MinSync = 2
  StartupTTL = 3
  MaxFaults = 0
  MaxStops = 1
  MaxSevered = 0
PROPERTY SigtermLeavesNothingPartial
