SPECIFICATION FairSpec
CONSTANTS
  Refreshers = {r1, r2}
  None = None
  MaxExpiries = 2
  MaxConnects = 1
  MaxCrashes = 1
INVARIANTS OneRefreshPerExpiry UnhealthyIsAnnounced
PROPERTIES StaleIsResolved OldKeyDrains
CHECK_DEADLOCK FALSE
