SPECIFICATION FairSpec
CONSTANTS
  None = None
  MaxBuilds = 3
  MaxTokens = 2
INVARIANTS
  SetupInvariant
  ConnectsToItsOwn
PROPERTIES
  ReadyIsNoticed
  StoppedIsActedOn
CHECK_DEADLOCK FALSE
