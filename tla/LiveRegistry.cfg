CONSTANTS
  c1 = c1
  t1 = t1
  t2 = t2
  NoClient = NoClient
  Client = {c1}
  Task = {t1, t2}
  Timers = {"prune"}
  Chunk = 2
  MaxPeersPerSuper = 1
  Failures = {"expire", "redis"}
SPECIFICATION Spec
PROPERTY CloseIsCleaned
