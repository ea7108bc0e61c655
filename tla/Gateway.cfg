SPECIFICATION Spec
CONSTANTS
  Nil = Nil
  Null = Null
  Objects <- MCObjects
  Depth <- MCDepth
  Clients = {c1, c2}
  v1 = v1
  Voyages = {v1}
  NoId = NoId
  Documents <- MCDocuments
  Half32 = 4
  NotInt = NotInt
  MaxVersion = 3
  MaxFaults = 1
INVARIANTS
  ResponseConforms
  CleanMeansDone
  NullMeansUnknown
  AnswersAreStored
