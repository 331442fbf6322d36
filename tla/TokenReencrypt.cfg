SPECIFICATION Spec
CONSTANTS
  Refreshers = {r1, r2}
  None = None
  MaxExpiries = 1
  MaxConnects = 0
  MaxCrashes = 0
INVARIANTS StoredTokenWorks
CHECK_DEADLOCK FALSE
