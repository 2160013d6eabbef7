SPECIFICATION Spec
CONSTANTS
  h1 = h1
  h2 = h2
  u1 = u1
  u2 = u2
  Hosts = {h1, h2}
  Tokens <- MCTokens
  Rejected <- MCRejected
  Flaky = TRUE
  None = None
  MaxOps = 2
INVARIANTS
  WindowFollowsSession
  OneRecovery
PROPERTIES
  OnlyLoginSwitches
  PersistsWhatItShows
CHECK_DEADLOCK FALSE
