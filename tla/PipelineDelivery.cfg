SPECIFICATION Spec
CONSTANTS
  Half = 8
  Voyages = {v1, v2}
  Contents <- OneLeg
  RatePerNm = 2
  MaxVersion = 1
  PollLimit = 1
  Faults <- DeliveryFaults
  MaxFaults = 1
  MaxPoison = 1
  Null = Null
  Poison = Poison
INVARIANTS
  CommitAfterProduce
  CommitAfterUpsert
  CommitAfterDLQ
  NeverStranded
PROPERTIES
  LedgerLive
  OutboxDrains
  ConsumersCatchUp
CHECK_DEADLOCK FALSE
