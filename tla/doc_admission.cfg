SPECIFICATION Spec
CONSTANTS
  Clients = {r1, r2}
  Workers = {w1, w2}
  MaxSubmits = 3
  MaxCrashes = 1
  MaxBatches = 2
  Forced = FALSE
  Prefork = FALSE
  Faults = {}
SYMMETRY Symmetry
INVARIANTS StartsAreAdmitted
CHECK_DEADLOCK FALSE
