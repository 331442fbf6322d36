SPECIFICATION MCSpec
CONSTANTS
  Parts = {"given"}
  Targets = {t1}
  Workers = {w1, w2}
  None = None
  Codes <- MCCodes
  RetryLimit <- MCRetryLimit
  AmbiguousCap = 2
  Lookup = TRUE
  IdemKey = FALSE
  SameText = FALSE
  LateCodes <- MCPermanent
  Faults <- MCSlow
  MaxAttempt = 2
  MaxVersion = 4
  MaxCrashes = 0
  MaxRetries = 0
INVARIANTS NoDoublePost
CHECK_DEADLOCK FALSE
