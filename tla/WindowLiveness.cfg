SPECIFICATION FairSpec
CONSTANTS
  Parts = {"ssh", "announcements", "requests", "terminal", "telemetry", "tasks"}
  Pids = {p1, p2}
  NoPid = NoPid
  Loops = {1, 2}
  MaxReadFailures = 2
  Tasks = {t1, t2}
  NoTask = NoTask
  Requests = {1}
  NoLogs = NoLogs
  Failed = Failed
  MaxLogs = 1
  Sites = {a}
  NoSite = NoSite
  Refreshes = {1, 2}
  Servers = {a, b}
  NoServer = NoServer
  Calls = {1, 2}
  Creds = {c1, c2}
  NoCred = NoCred
  Streams = {1}
  Openers = {o1, o2}
  Connected = {w1, w2}
  Authorities = {x, y}
  NoAuthority = NoAuthority
  MaxWindowEvents = 1
  Tokens = {k1, k2}
  NoToken = NoToken
  MaxJobs = 2
  MaxEvents = 3
  MaxSegments = 2
  BufferLimit = 2
  FlushBatchSize = 2
  MaxFileSize = 3
  ExSessions = {1, 2}
  MaxParts = 2
  MaxLines = 2
  MaxBuffered = 2
PROPERTIES
  FollowsProcess
  NewsIsSurfaced
  EverythingSettles
CHECK_DEADLOCK FALSE
