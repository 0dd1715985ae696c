\* Two drains at once, as when leadership overlaps; one event never succeeds.
CONSTANTS
  e1 = e1
  e2 = e2
  w1 = w1
  w2 = w2
  None = None
  Event = {e1, e2}
  Drainer = {w1, w2}
  Hopeless = {e1}
  BatchSize = 1
  RetryDelay = 2
  MaxInterruptions = 1
SPECIFICATION FairSpec
INVARIANTS
  CopiesAccountedFor
PROPERTIES
  DeliveredIsFinal
  EveryEventDelivered
CHECK_DEADLOCK FALSE
