SPECIFICATION FairSpec
CONSTANTS
  l1 = l1  l2 = l2  None = None  Foreign = Foreign
  Logins <- MCLogins
  Writers <- MCWriters
  Tokens <- MCTokens
  Valid <- MCValid
  Hosts = {"coder", "other"}
  Host = "coder"
  NoToken = ""
  Absent = "absent"
  Stored = {"expired"}
  MaxCount = 1
  Pasted = "ours"  Granted = "ours"  Theirs = "theirs"
  MaxOthers = 1
CHECK_DEADLOCK FALSE
INVARIANTS LoginInvariant OneLoginAtATime KeepsWithinLimit
PROPERTY EveryLoginSettles
