\* One endpoint, two deliveries, two tasks at the same time; a fair worker.
CONSTANTS
  h1 = h1
  d1 = d1
  d2 = d2
  s1 = s1
  s2 = s2
  None = None
  Webhook = {h1}
  Delivery = {d1, d2}
  Slot = {s1, s2}
  MaxAttempts = 3
  MaxDelay = 2
  MaxUnsure = 1
SPECIFICATION FairSpec
INVARIANTS
  IInv
  OnlyLossStrands
PROPERTIES
  SettledIsFinal
  EveryDeliverySettles
CHECK_DEADLOCK FALSE
