\* One decision, two replicas, every kind of trouble once.
SPECIFICATION FairSpec
CONSTANTS
  Replicas = {r1, r2}
  Feed = {d1}
  NoReplica = none
  Enrolling = TRUE
  MinSync = 2
  StartupTTL = 3
  MaxFaults = 1
  MaxStops = 1
  MaxSevered = 1
INVARIANTS
  TypeOK
  SyncsBounded
  CacheFollows
PROPERTIES
  RecordedSpacing
  EventuallyCached
