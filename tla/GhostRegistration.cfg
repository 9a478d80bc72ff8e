CONSTANTS
  c1 = c1
  t1 = t1
  t2 = t2
  NoClient = NoClient
  Client = {c1}
  Task = {t1, t2}
  Timers = {"classify", "prune"}
  Chunk = 1
  MaxPeersPerSuper = 1
  Failures = {}
SPECIFICATION Spec
INVARIANT RegisteredIsCurrent
