SPECIFICATION Spec
CONSTANTS
  Voyages = {v1, v2}
  Contents = {c1, c2}
  Unpriceable = {c2}
  MaxVersion = 2
  MaxLines = 2
  Concurrent = FALSE
  WaitForCreate = TRUE
  Faults = {"network", "compact", "crash"}
  MaxFaults = 2
  None = None
  Torn = Torn
INVARIANTS
  NothingLost
  Converged
PROPERTIES
  QueueDrains
