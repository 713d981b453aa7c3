\* One machine id, one key, three requests at once, one failure.
SPECIFICATION Spec
CONSTANTS
  Machines = {m1}
  Passwords = {p1, p2}
  Keys = {k1}
  Limits = {1, 2}
  Handlers = {h1, h2, h3}
  MaxFaults = 1
SYMMETRY Requests
INVARIANTS
  TypeOK
  KeyBudget
PROPERTIES
  KeysAreTickets
  BlockSticks
  RegistrationKept
