SPECIFICATION Spec
CONSTANTS
  Parts <- AllParts
  Pids = {p1, p2}
  NoPid = NoPid
  Loops = {1, 2}
  MaxReadFailures = 2
  Tasks = {t1, t2}
  NoTask = NoTask
  Requests = {1, 2}
  NoLogs = NoLogs
  Failed = Failed
  MaxLogs = 1
  Sites = {a, b}
  NoSite = NoSite
  Refreshes = {1, 2}
  Servers = {a, b}
  NoServer = NoServer
  Calls = {1, 2}
  Creds = {c1, c2}
  NoCred = NoCred
  Streams = {1}
  Openers = {o1, o2}
  Connected = {w1, w2}
  Authorities = {x, y}
  NoAuthority = NoAuthority
  MaxWindowEvents = 2
  Tokens = {k1, k2}
  NoToken = NoToken
  MaxJobs = 2
  MaxEvents = 4
  MaxSegments = 3
  BufferLimit = 2
  FlushBatchSize = 2
  MaxFileSize = 3
  ExSessions = {1, 2}
  MaxParts = 2
  MaxLines = 2
  MaxBuffered = 2
INVARIANTS
  TypeOK
  OneMonitorLoop
  StreamsAreKept
  AnnouncementsGoOn
  OneLoginForAll
  OnlyAskedWindowsDuplicate
  CliFindsItsToken
  ToldOnce
  TelemetryIsWhole
  ExportIsWhole
CHECK_DEADLOCK FALSE
