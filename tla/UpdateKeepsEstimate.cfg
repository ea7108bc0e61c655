SPECIFICATION SafeSpec
CONSTANTS
  Half = 8
  Voyages = {v1}
  Contents <- TwoLegs
  RatePerNm = 2
  MaxVersion = 2
  PollLimit = 1
  Faults = {}
  MaxFaults = 0
  MaxPoison = 0
  Null = Null
  Poison = Poison
INVARIANTS
  EstimateIsCurrent
CHECK_DEADLOCK FALSE
