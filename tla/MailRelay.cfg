\* Two fair workers race over one message that only the environment relay carries; one
\* review, three attempts, every other bound is 2.
CONSTANTS
  m1 = m1
  w1 = w1
  w2 = w2
  relay = relay
  esp = esp
  a1 = a1
  u1 = u1
  None = None
  Message <- OneMessage
  Worker = {w1, w2}
  Provider = {relay}
  Managed = {}
  Address = {a1}
  Actor = {u1}
  ActorOf <- OneSender
  AddressOf <- SharedAddress
  HasLocal = {m1}
  HasRemote = {m1}
  LegacyFailed = {}
  MaxAttempts = 3
  MaxUndo = 2
  MaxBackoff = 2
  LeaseTime = 2
  MaxReviews = 1
  Reports = {}
SPECIFICATION FairSpec
INVARIANTS
  OneCopyPerReview
  UndoneNeverSent
  CancelledIsQuiet
PROPERTIES
  PromiseKept
  QueueDrains
CHECK_DEADLOCK FALSE
