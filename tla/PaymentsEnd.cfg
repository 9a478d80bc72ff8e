CONSTANTS
  c1 = c1
  c2 = c2
  s1 = s1
  s2 = s2
  NoKey = NoKey
  Client = {c1, c2}
  Slot = {s1, s2}
  ServeEvery = 2
  MaxVerified = 2
  Threshold = 2
  k1 = k1
  Failing = {}
  Key = {k1}
  Payable = {k1}
  Base = 0
  Top = 1
  MaxBoost = 0
  ServeBonus = 0
  MaxServed = 3
SPECIFICATION Spec
PROPERTY PaymentsEnd
CHECK_DEADLOCK FALSE
