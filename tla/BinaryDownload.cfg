SPECIFICATION FairSpec
CONSTANTS
  Windows = {w1, w2}
  None = None
  MaxVersion = 2
  MaxFaults = 1
  MaxCalls = 2
INVARIANTS
  DownloadInvariant
PROPERTIES
  SwapLosesNothing
  ImplementsInstalledBinary
  FetchEnds
CHECK_DEADLOCK FALSE
