SPECIFICATION Spec
CONSTANTS
  p1 = p1
  p2 = p2
  Processes = {p1, p2}
  Deployments <- MCDeployments
  Migrations = 2
  MaxIds = 2
  MaxFaults = 1
INVARIANTS
  TypeOK
  DrainsFirst
  ServesMigrated
  FramesDecode
PROPERTIES
  ExitCutsNoStatement
  EveryStopEnds
  ComesUp
CHECK_DEADLOCK FALSE
