SPECIFICATION Spec
CONSTANTS
  Clients = {r1, r2}
  Workers = {w1, w2}
  MaxSubmits = 3
  MaxCrashes = 2
  MaxBatches = 2
  Forced = TRUE
  Prefork = TRUE
  Faults = {}
SYMMETRY Symmetry
INVARIANTS TypeOK ErrorOnlyWhenFailed ReadyIsComplete IngestedOnce StarterOwnsRecord PendingHasOwner
PROPERTIES FinalUntilResubmitted ImplementsLifecycle
CHECK_DEADLOCK FALSE
