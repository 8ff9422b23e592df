SPECIFICATION Spec
CONSTANTS
  FileCount = 0
  BatchSize = 1
  Languages = {"python", "go"}
  Contents <- MCContents
  Writers = {}
  Workers = {w1}
  Turns = {t1}
  Process <- MCProcess
  RequestsPerMinute = 10
  MaxWait = 4
  MaxRetries = 2
  MaxBackoff = 2
  RetryAfter = {0}
  DownTime = 1
  RedisTime = 4
  Second = 1
  Jitter = 1
  Repos = {p}
  NoRepo = NoRepo
  MaxPolls = 0
  MaxChanges = 0
INVARIANTS CappedPerSecond
CHECK_DEADLOCK FALSE
