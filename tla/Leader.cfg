\* Two overlapping attempts, three processes, one lost session, all kinds
\* of worker.
CONSTANTS
  r1 = r1
  r2 = r2
  Replica = {r1, r2}
  MaxAttempts = 2
  MaxBoots = 3
  MaxLosses = 1
SPECIFICATION FairSpec
INVARIANTS
  IInv
  WorkerRunsOnce
  IdleLeaseIsReported
PROPERTY Takeover
CHECK_DEADLOCK FALSE
