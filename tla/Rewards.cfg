CONSTANTS
  c1 = c1
  c2 = c2
  s1 = s1
  s2 = s2
  k1 = k1
  k2 = k2
  NoKey = NoKey
  Client = {c1, c2}
  Failing = {c1, c2}
  Slot = {s1, s2}
  Key = {k1, k2}
  Payable = {k1, k2}
  Base = 4
  Top = 6
  MaxBoost = 3
  ServeBonus = 2
  ServeEvery = 2
  MaxVerified = 2
  Threshold = 2
  MaxServed = 4
  MaxPaid = 2
SPECIFICATION MCSpec
SYMMETRY Symmetry
VIEW View
INVARIANTS
  TypeOK
  ReputationFloor
  MemoryIsStored
  OnePaymentAtATime
  PaidForServed
  PendingAtWork
CHECK_DEADLOCK FALSE
