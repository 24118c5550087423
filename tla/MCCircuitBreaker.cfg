SPECIFICATION FairSpec
CONSTANTS
  Callers = {c1, c2, c3}
  Threshold = 2
  Recovery = 3
  MaxRetries = 2
  BaseDelay = 1
  BackoffFactor = 3
  MaxDelay = 2
INVARIANTS
  BreakerTypeOK
  ClosedBelowThreshold
PROPERTIES
  ServiceRests
  OnlyLateAnswersCloseEarly
  CoolsDown
  EveryCallReturns
