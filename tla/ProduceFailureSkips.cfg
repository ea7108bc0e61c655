SPECIFICATION SafeSpec
CONSTANTS
  Half = 8
  Voyages = {v1, v2}
  Contents <- OneLeg
  RatePerNm = 2
  MaxVersion = 1
  PollLimit = 1
  Faults = {"produce"}
  MaxFaults = 1
  MaxPoison = 0
  Null = Null
  Poison = Poison
INVARIANTS
  CommitAfterProduce
CHECK_DEADLOCK FALSE
