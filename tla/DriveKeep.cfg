CONSTANTS
  None = None
  Object = {o1, o2}
  Content = {c1}
  Infected = {}
  Uploads <- AnyContent
  User = {u1, u2}
  Sweeper = {s1}
  Process = {u1, u2, s1}
  Dedup = TRUE
  MaxVersions = 1
  MaxFresh = 1
  MaxTries = 2
  Slips = {}
  MaxFaults = 1
SYMMETRY Symmetry
SPECIFICATION Spec
INVARIANTS
  VersionsKept
  CountsMatch
CHECK_DEADLOCK FALSE
