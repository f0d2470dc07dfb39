SPECIFICATION Spec
CONSTANTS
  p1 = p1
  p2 = p2
  s1 = s1
  Nobody = Nobody
  Procs = {p1, p2}
  Slow = TRUE
  MaxProposals = 2
  Sessions = {s1}
  MaxAttempts = 2
  MaxCommits = 2
  MaxMishaps = 0
  Touching = {1}
INVARIANTS NothingProtectedInstalled
CHECK_DEADLOCK FALSE
