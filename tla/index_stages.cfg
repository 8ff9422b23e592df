SPECIFICATION Spec
CONSTANTS
  FileCount = 3
  BatchSize = 2
  Languages = {"python", "go"}
  Contents <- MCContents
  Writers = {w1, w2, w3}
  Workers = {w1}
  Turns = {t1}
  Process <- MCProcess
  RequestsPerMinute = 10
  MaxWait = 4
  MaxRetries = 3
  MaxBackoff = 3
  RetryAfter = {0, 4}
  DownTime = 2
  RedisTime = 2
  Second = 1
  Jitter = 1
  Repos = {p, q}
  NoRepo = NoRepo
  MaxPolls = 3
  MaxChanges = 2
INVARIANTS TypeOK EachFileOnce LosesFewFiles ReportsInTime NoPoolLeft SlotsPerSecond WaitsItsTime WritesIntoConfigured ChatsWhenReady
PROPERTIES WaitsEnd ShowsLatest PanelFollows
CHECK_DEADLOCK FALSE
