\* Two replicas, a failure, two edits and a redeployment.
SPECIFICATION FairReadSpec
CONSTANTS
  a = a
  b = b
  Replicas = {r1, r2}
  Values = {a, b}
  Files <- MCFiles
  NoFile = none
  MaxFaults = 1
  MaxEdits = 2
  MaxDeploys = 1
INVARIANTS
  ReadTypeOK
  LocksExclusive
PROPERTIES
  ReadWhole
  FileApplied
  NoGap
  EventuallyServing
CHECK_DEADLOCK FALSE
