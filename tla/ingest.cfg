\* Two requests of one machine, one failure.
SPECIFICATION Spec
CONSTANTS
  v1 = v1
  v2 = v2
  junk = junk
  Handlers = {h1, h2}
  Machines = {m1}
  Values <- MCValues
  Valid <- MCValid
  Batches <- MCBatches
  MaxBatch = 2
  MaxFaults = 1
INVARIANTS
  TypeOK
  DuplicatesBounded
  AnswerComplete
PROPERTIES
  AllowlistRespected
  BlockedIgnored
SYMMETRY Requests
