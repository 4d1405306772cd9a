SPECIFICATION FairSpec
CONSTANTS
  NumRows = 10
  PageSize = 4
  MaxWindow = 2
  MaxDepth = 2
  Cap = 3
INVARIANTS
  TypeOK
  EveryRowOnce
  TasksAreKept
PROPERTIES
  ImplementsDelivery
  StreamEnds
