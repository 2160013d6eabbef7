SPECIFICATION FairSpec
CONSTANTS
  h1 = h1
  h2 = h2
  u1 = u1
  u2 = u2
  Hosts = {h1}
  Tokens <- RotatedTokens
  Rejected <- MCRejected
  Flaky = FALSE
  None = None
  MaxOps = 3
PROPERTY NewestTokenStays
CHECK_DEADLOCK FALSE
