\* Two people behind one address, one key, one trouble of each kind.
SPECIFICATION FairCommandSpec
CONSTANTS
  Machines = {m1, m2, m3}
  Passwords = {p1}
  Keys = {k1}
  Limits = {3}
  Handlers = {h1, h2}
  NoHandler = NoHandler
  Installers = {i1, i2}
  Limit = 4
  Window = 2
  MaxFaults = 1
  MaxMishaps = 1
INVARIANTS
  CommandTypeOK
  FileWorks
  CommandInv
  UsesPaidFor
PROPERTIES
  ServerIsLifecycle
  EventuallyWorking
