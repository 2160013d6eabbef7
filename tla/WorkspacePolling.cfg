SPECIFICATION FairSpec
CONSTANTS
  Agents = {a1, a2}
  MaxSessions = 4
INVARIANTS
  TreeFollowsSession
  FetchesWhatIsMissing
  HiddenIsQuiet
PROPERTIES
  EventuallyShown
CHECK_DEADLOCK FALSE
