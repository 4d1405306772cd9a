SPECIFICATION Spec
CONSTANTS
  MaxOid = 5
  MaxRecordCount = 2
  Sizes = {0, 1, 3}
  Factors <- MCFactors
  Limits = {1, 2}
INVARIANTS
  TypeOK
  RowsAreReadOnce
  PlannedPagesFit
