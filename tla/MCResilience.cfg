SPECIFICATION FairResilienceSpec
CONSTANTS
  t1 = t1
  t2 = t2
  Callers = {t1, t2}
  Service <- OneService
  ByHost = FALSE
  MaxAttempts = 3
  Budget = 4
  MaxBackoff = 2
  RetryAfters = {0, 1, 3}
  MaxHonoured = 2
  Fallback = 1
  Capacity = 1
  Period = 2
INVARIANTS
  ResilienceTypeOK
  BurstBounded
PROPERTIES
  DeadlineIsWaitedOut
  EveryRequestEnds
