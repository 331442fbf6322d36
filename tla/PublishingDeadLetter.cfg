SPECIFICATION MCSpec
CONSTANTS
  Parts = {"given"}
  Targets = {t1}
  Workers = {w1, w2}
  None = None
  Codes <- MCCodes
  RetryLimit <- MCRetryLimit
  AmbiguousCap = 2
  Lookup = TRUE
  IdemKey = FALSE
  SameText = FALSE
  LateCodes <- MCPermanent
  Faults <- MCNoFaults
  MaxAttempt = 3
  MaxVersion = 4
  MaxCrashes = 0
  MaxRetries = 1
PROPERTIES ExhaustionOpensDeadLetter
CHECK_DEADLOCK FALSE
