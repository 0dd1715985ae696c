CONSTANTS
  direct = direct
  mail = mail
  Worker = {w1, w2}
  Kind = {direct, mail}
  Hidden = hidden
  Grant = {full}
  Withheld = withheld
  Disabled = disabled
  TurnsPerHour = 1
  PageSize = 2
  MaxSteps = 1
  Selection <- DirectOrAll
  MaxEvents = 3
  Source <- KindsInOrder
  MaxVersion = 2
  MaxFaults = 1
SPECIFICATION FairSpec
INVARIANTS
  OneTurnPerEvent
  AtMostOneLateStep
PROPERTIES
  PassesNothingSelected
  TurnsSettle
  EveryEventAnswered
CHECK_DEADLOCK FALSE
