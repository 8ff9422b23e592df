SPECIFICATION FairSpec
CONSTANTS
  Clients = {r1, r2}
  Workers = {w1}
  MaxSubmits = 2
  MaxCrashes = 2
  MaxBatches = 2
  Forced = FALSE
  Prefork = TRUE
  Faults = {"slow request", "ambiguous publish", "expiry", "api crash", "store error", "late error"}
INVARIANTS AbandonedStaysFailed EmbeddedWithinTotal
PROPERTIES Settles
CHECK_DEADLOCK FALSE
