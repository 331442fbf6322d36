SPECIFICATION PostsSpec
CONSTANTS
  Targets = {t1, t2}
  Author = author
  Approvers = {a1, a2}
  None = None
  Overlap = FALSE
  LateReflow = FALSE
  MaxContent = 2
  MaxReflows = 1
  Twins = {t1, t2}
  Workers = {w1, w2}
  AmbiguousCap = 2
SYMMETRY PostsSymmetry
INVARIANTS RollupIsProjection ReviewedAsScheduled InboxShowsPending ScheduledIsCurrent
           NoDoublePost
PROPERTIES InFlightNeverDeleted
CHECK_DEADLOCK FALSE
