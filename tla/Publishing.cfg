SPECIFICATION MCFairSpec
CONSTANTS
  Parts = {"given", "keyed"}
  Targets = {t1}
  Workers = {w1, w2}
  None = None
  Codes <- MCCodes
  RetryLimit <- MCRetryLimit
  AmbiguousCap = 2
  Lookup = TRUE
  IdemKey = FALSE
  SameText = FALSE
  LateCodes <- MCPermanent
  Faults <- MCNoFaults
  MaxAttempt = 2
  MaxVersion = 3
  MaxCrashes = 2
  MaxRetries = 1
INVARIANTS  OneCallPerAttempt UsageCountsPublished
PROPERTIES PublishedIsFinal ImplementsContract NeverStranded
CHECK_DEADLOCK FALSE
