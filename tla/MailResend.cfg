\* One managed provider and no review by a person: a second copy can only be an automatic one.
CONSTANTS
  m1 = m1
  w1 = w1
  w2 = w2
  relay = relay
  esp = esp
  a1 = a1
  u1 = u1
  None = None
  Message <- OneMessage
  Worker = {w1, w2}
  Provider = {esp}
  Managed = {esp}
  Address = {a1}
  Actor = {u1}
  ActorOf <- OneSender
  AddressOf <- SharedAddress
  HasLocal = {m1}
  HasRemote = {m1}
  LegacyFailed = {}
  MaxAttempts = 2
  MaxUndo = 1
  MaxBackoff = 1
  LeaseTime = 1
  MaxReviews = 0
  Reports = {}
SPECIFICATION Spec
INVARIANT NoResendOfUnknownOutcome
CHECK_DEADLOCK FALSE
