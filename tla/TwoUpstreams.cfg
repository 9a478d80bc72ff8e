CONSTANTS
  MaxMsg = 3
  MaxWs = 3
  Failures = {"drop"}
SPECIFICATION Spec
INVARIANT OneUpstreamPerClient
CHECK_DEADLOCK FALSE
