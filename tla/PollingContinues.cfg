SPECIFICATION FairSpec
CONSTANTS
  Agents = {a1, a2}
  MaxSessions = 4
INVARIANTS
  PollingContinues
CHECK_DEADLOCK FALSE
