SPECIFICATION Spec
CONSTANTS
  t1 = t1
  t2 = t2
  Tasks = {t1, t2}
  Rows = {1, 2}
  Filters <- MCFilters
  SampleSize = 1
  MaxLayers = 2
INVARIANTS
  SampleHasNFeatures
