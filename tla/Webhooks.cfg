SPECIFICATION FairSpec
CONSTANTS
  Events = {e1, e2}
  Endpoints = {x1}
  Tasks = {w1, w2}
  Batch = 2
  EndpointCap = 1
  MaxDisturbed = 1
INVARIANTS AcceptedOnce FanOutLosesNothing
PROPERTIES DeliverySettles
CHECK_DEADLOCK FALSE
