SPECIFICATION Spec
CONSTANTS
  Clients = {c1, c2}
  Repos = {p, q, r}
  MaxRepos = 2
  MaxBuilds = 4
  Invocations = {i1, i2}
  Models = {1, 2}
  Tools = {k1, k2}
  MaxOpen = 1
SYMMETRY Symmetry
INVARIANTS TypeOK SessionsAreFound KeepsMostRecent NoRunLost ResultsMatch
CHECK_DEADLOCK FALSE
