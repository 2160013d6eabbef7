SPECIFICATION FairSpec
CONSTANTS
  Hosts = {h1, h2}
  None = None
  Slots = {r1, r2}
  MaxPending = 3
  MaxWaiters = 1
  MaxReads = 2
  Timers = {t1, t2}
INVARIANTS
  SingleFlight
CHECK_DEADLOCK FALSE
