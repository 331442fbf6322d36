SPECIFICATION Spec
CONSTANTS
  Targets = {t1}
  Author = author
  Approvers = {a1}
  None = None
  Overlap = TRUE
  LateReflow = FALSE
  MaxContent = 2
  MaxReflows = 0
INVARIANT ReviewedAsScheduled
CHECK_DEADLOCK FALSE
