SPECIFICATION RedisSpec
CONSTANTS
  Callers = {c1, c2}
  Attempts = {a1, a2, a3}
  NoAttempt = NoAttempt
  Keep = Keep
  v0 = v0
  v1 = v1
  Fields <- MCFields
  Values <- MCValues
  Initial = v0
  Requests <- AppRequests
  Expires = TRUE
  ReplyLost = FALSE
SYMMETRY Symmetry
INVARIANTS TypeOK OneRetryWins LostCreateSeesRecord
PROPERTIES ImplementsAtomicStore

