SPECIFICATION SafeSpec
CONSTANTS
  Half = 8
  Voyages = {v1, v2}
  Contents <- LegAndOverflow
  RatePerNm = 2
  MaxVersion = 2
  PollLimit = 1
  Faults <- AllFaults
  MaxFaults = 1
  MaxPoison = 1
  Null = Null
  Poison = Poison
SYMMETRY VoyageSymmetry
INVARIANTS
  TypeOK
  PublishedIsOnTopic
  EventsAreGenuine
  AppliedAtMostOnce
PROPERTIES
  CommittedNeverRewinds
  LedgerSafe
CHECK_DEADLOCK FALSE
