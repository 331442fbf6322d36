SPECIFICATION Spec
CONSTANTS
  Publishers = {p1, p2}
  Readers = {r1}
  Threshold = 2
  PublishLimit = 2
  MetricsLimit = 1
  MaxCrashes = 0
INVARIANTS SingleProbe
