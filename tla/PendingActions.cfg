\* One action, two requests at a time, an agent, two administrators and another person.
CONSTANTS
  None = None
  Action = {a1}
  Request = {r1, r2}
  Actor = {agent, ann, bob, eve}
  Person = {ann, bob, eve}
  Admin = {ann, bob}
  MaxBreaks = 1
  MaxBarred = 1
SPECIFICATION FairSpec
INVARIANTS
  Inv
  OnceAndReported
  RepeatsAreInterruptions
PROPERTY EveryActionSettles
CHECK_DEADLOCK FALSE
