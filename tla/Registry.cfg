CONSTANTS
  c1 = c1
  t1 = t1
  t2 = t2
  t3 = t3
  NoClient = NoClient
  Client = {c1}
  Task = {t1, t2, t3}
  Timers = {"classify"}
  Chunk = 1
  MaxPeersPerSuper = 1
  Failures = {"expire", "redis", "crash"}
SYMMETRY Symmetry
SPECIFICATION Spec
CONSTRAINT AfterFault
INVARIANTS
  TypeOK
  LeftoversExplained
  IndexedWhileLive
  StatusMatchesSet
  NeverDemotedWhileOpen
  FullHashHasTtl
