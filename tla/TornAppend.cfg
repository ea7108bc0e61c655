SPECIFICATION SafeSpec
CONSTANTS
  Voyages = {v1}
  Contents = {c1}
  Unpriceable = {}
  MaxVersion = 1
  MaxLines = 3
  Concurrent = FALSE
  WaitForCreate = FALSE
  Faults = {"tear"}
  MaxFaults = 1
  None = None
  Torn = Torn
INVARIANTS
  ColdReopen
