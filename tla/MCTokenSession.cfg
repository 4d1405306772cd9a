SPECIFICATION FairSpec
CONSTANTS
  t1 = t1
  t2 = t2
  NoTask = NoTask
  Tasks = {t1, t2}
  MaxToken = 3
  MaxAttempts = 3
INVARIANTS
  TypeOK
  RefreshIsNeeded
  RetryBearsNewToken
  ExpiredMeansTwoRejections
  AnonymousFailsOnlyWhenRejected
PROPERTIES
  EveryCallEnds
  ImplementsLifecycle
