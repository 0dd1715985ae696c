CONSTANTS
  None = None
  Object = {o1}
  Content = {c1}
  Infected = {}
  Uploads <- AnyContent
  User = {u1}
  Sweeper = {s1}
  Process = {u1, s1}
  Dedup = FALSE
  MaxVersions = 1
  MaxFresh = 0
  MaxTries = 2
  Slips = {"expiring"}
  MaxFaults = 0
SPECIFICATION Spec
INVARIANT Kept
CHECK_DEADLOCK FALSE
