SPECIFICATION DirectorySpec
CONSTANTS
  Tasks = {t1, t2, t3}
  Services = {"a"}
  LayersOf <- TwoLayers
  None = None
  MaxCrawls = 3
INVARIANTS
  AttributesAgree
PROPERTIES
  CacheSettles
CHECK_DEADLOCK FALSE
