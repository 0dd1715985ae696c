CONSTANTS
  None = None
  Object = {o1}
  Content = {c1, x1}
  Infected = {x1}
  Uploads <- AnyContent
  User = {u1}
  Sweeper = {s1}
  Process = {u1, s1}
  Dedup = FALSE
  MaxVersions = 2
  MaxFresh = 0
  MaxTries = 2
  Slips = {"expiring", "queued", "replace", "unseat", "purge", "revert", "answer", "overlap"}
  MaxFaults = 2
SPECIFICATION FairSpec
INVARIANTS
  VersionsKept
  ReadyIsNewest
PROPERTIES
  QuarantineHolds
  KeepsPromise
  DeletionsFinish
  ScansSettle
  FinalizationsEnd
CHECK_DEADLOCK FALSE
