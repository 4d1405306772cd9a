SPECIFICATION FairSpec
CONSTANTS
  s1 = s1
  s2 = s2
  s3 = s3
  l1 = l1
  l2 = l2
  BaseServices = {s1}
  Folders <- TwoFolders
  Layers = {l1, l2}
  Slots = 2
INVARIANTS
  TypeOK
  CapIsGlobal
  EveryServiceAccounted
  DoneServiceIsWhole
PROPERTIES
  CrawlReturns
  SlotsComeBack
