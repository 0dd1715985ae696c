\* A stop meets a first batch that is still running; no crash, no lost session.
CONSTANTS
  r1 = r1
  r2 = r2
  Replica = {r1, r2}
  MaxAttempts = 1
  MaxBoots = 2
  MaxLosses = 0
SPECIFICATION Spec
INVARIANT StopEndsWorker
CHECK_DEADLOCK FALSE
