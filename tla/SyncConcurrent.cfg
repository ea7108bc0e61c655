SPECIFICATION SafeSpec
CONSTANTS
  Voyages = {v1, v2}
  Contents = {c1}
  Unpriceable = {}
  MaxVersion = 2
  MaxLines = 3
  Concurrent = TRUE
  WaitForCreate = FALSE
  Faults = {"network", "append", "compact", "crash", "tear"}
  MaxFaults = 2
  None = None
  Torn = Torn
INVARIANTS
  TypeOK
PROPERTIES
  QueueOnDisk
