CONSTANTS
  MaxMsg = 3
  MaxWs = 3
  Failures = {"refuse", "drop", "error"}
  Version = {1, 2, 3}
  MaxLookups = 4
  MaxFeeds = 1
SPECIFICATION MCSpec
INVARIANTS
  SessionTypeOK
  QueueHasOwner
  SentOnce
  InOrder
  EoseOnce
PROPERTY
  EveryMessageHandled
  NewestWins
CHECK_DEADLOCK FALSE
