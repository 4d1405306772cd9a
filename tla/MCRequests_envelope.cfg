SPECIFICATION Spec
CONSTANTS
  Tasks = {t1, t2}
  Calls <- SomeCalls
  Answers <- SomeAnswers
  Sessions <- SomeSessions
  Limit = 10
  UrlLength = 4
  OwnLength = 2
  DefaultWhere = 1
  MaxTries = 2
  Unset = Unset
INVARIANTS
  EnvelopeIsRaised
