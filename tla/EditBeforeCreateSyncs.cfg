SPECIFICATION Spec
CONSTANTS
  Voyages = {v1}
  Contents = {c1}
  Unpriceable = {}
  MaxVersion = 2
  MaxLines = 3
  Concurrent = FALSE
  WaitForCreate = FALSE
  Faults = {"network"}
  MaxFaults = 1
  None = None
  Torn = Torn
PROPERTIES
  QueueDrains
