SPECIFICATION RedisSpec
CONSTANTS
  Callers = {c1, c2}
  Attempts = {a1, a2}
  NoAttempt = NoAttempt
  Keep = Keep
  v0 = v0
  v1 = v1
  Fields <- MCFields
  Values <- MCValues
  Initial = v0
  Requests <- AppRequests
  Expires = FALSE
  ReplyLost = TRUE
INVARIANTS FalseMeansNotWritten

