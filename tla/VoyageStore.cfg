SPECIFICATION Spec
CONSTANTS
  Handlers = {h1, h2}
  Voyages = {v1}
  Contents = {c1, c2}
  MaxVersion = 3
  PoolSizes = {1, 2}
  MaxFaults = 2
  None = None
INVARIANTS
  TypeOK
  OneEventPerVoyage
  ConflictMeansRow
PROPERTIES
  UpdateWins
  IsRegister
  EveryRequestEnds
