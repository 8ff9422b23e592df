SPECIFICATION RedisFairSpec
CONSTANTS
  Callers = {c1, c2}
  Attempts = {a1, a2}
  NoAttempt = NoAttempt
  Keep = Keep
  v0 = v0
  v1 = v1
  Fields <- MCFields
  Values <- MCValues
  Initial = v0
  Requests <- AllRequests
  Expires = TRUE
  ReplyLost = TRUE
INVARIANTS WatchInv
PROPERTIES StoreMakesProgress

