SPECIFICATION FairSpec
CONSTANTS
  Sockets = {s1, s2, s3}
  None = None
  Kinds = {"ws", "sse"}
  Deliveries = {"opening", "open"}
  InitialBackoff = 1
  MaxBackoff = 3
  MaxRefreshes = 2
INVARIANTS
  StateOwnsItsResources
  RetryLoopAlive
PROPERTIES
  DisposedForever
  LossIsResolved
CHECK_DEADLOCK FALSE
