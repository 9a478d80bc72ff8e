CONSTANTS
  c1 = c1
  c2 = c2
  s1 = s1
  s2 = s2
  NoKey = NoKey
  Client = {c1, c2}
  Slot = {s1, s2}
  ServeEvery = 2
  MaxVerified = 2
  Threshold = 2
  k1 = k1
  k2 = k2
  Failing = {c1, c2}
  Key = {k1, k2}
  Payable = {}
  Base = 4
  Top = 6
  MaxBoost = 3
  ServeBonus = 2
  MaxServed = 4
SPECIFICATION Spec
SYMMETRY Symmetry
INVARIANTS
  ReputationFloor
  MemoryIsStored
CHECK_DEADLOCK FALSE
