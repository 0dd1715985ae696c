\* One message, which an older release may have left failed, the environment relay and
\* one managed provider, three kinds of feedback.
CONSTANTS
  m1 = m1
  w1 = w1
  w2 = w2
  relay = relay
  esp = esp
  a1 = a1
  u1 = u1
  None = None
  Message <- OneMessage
  Worker = {w1, w2}
  Provider = {relay, esp}
  Managed = {esp}
  Address = {a1}
  Actor = {u1}
  ActorOf <- OneSender
  AddressOf <- SharedAddress
  HasLocal = {}
  HasRemote = {m1}
  LegacyFailed = {m1}
  MaxAttempts = 2
  MaxUndo = 1
  MaxBackoff = 1
  LeaseTime = 1
  MaxReviews = 1
  Reports = {"delivered", "bounced", "deferred"}
SPECIFICATION Spec
SYMMETRY Workers
INVARIANTS
  IInv
  OneProviderPerMessage
  FeedbackSettles
  SentIsTrue
  SuppressionHolds
PROPERTY OutcomeNeverTakenBack
CHECK_DEADLOCK FALSE
