CONSTANTS
  b1 = b1
  b2 = b2
  e1 = e1
  e2 = e2
  Browser = {b1, b2}
  Event = {e1, e2}
  Fed <- FedDef
  Mortal <- MortalDef
  Again = {b1}
  Shaky = {b1, b2}
  MaxFetch = 1
  MaxDelta = 2
SPECIFICATION Spec
INVARIANTS
  TypeOK
  NoStrayConnection
  CreditedWasServed
PROPERTIES
  FetchEnds
CHECK_DEADLOCK FALSE
