SPECIFICATION Spec
CONSTANTS
  NumRows = 4
  PageSize = 2
  MaxWindow = 2
  MaxDepth = 2
  Cap = 2
INVARIANTS
  SplitFetchesOnlyMissing
