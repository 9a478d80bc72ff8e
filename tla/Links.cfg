CONSTANTS
  c1 = c1
  c2 = c2
  t1 = t1
  t2 = t2
  NoClient = NoClient
  Client = {c1,c2}
  Task = {t1, t2}
  Timers = {}
  Chunk = 1
  MaxPeersPerSuper = 1
  Failures = {}
SYMMETRY Symmetry
SPECIFICATION Spec
INVARIANTS
  LeftoversExplained
  OrphansToldOnce
