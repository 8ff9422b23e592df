SPECIFICATION Spec
CONSTANTS
  Chats = {c1, c2}
  Sessions = {s1, s2}
  Questions = {q1, q2}
  NoSession = NoSession
  NoQuestion = NoQuestion
  MaxConcurrent = 1
  MaxAttempts = 2
  MaxTurns = 3
  Forced = TRUE
  SharedSessions = FALSE
SYMMETRY Symmetry
INVARIANTS TypeOK OnlyStoredSinceReset RetrievesSinceAdmission FirstTurnsAreContextFree SlotsAccountedFor
CHECK_DEADLOCK FALSE
