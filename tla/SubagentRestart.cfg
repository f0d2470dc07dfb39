SPECIFICATION Spec
CONSTANTS
  d1 = d1
  d2 = d2
  s = s
  Nobody = Nobody
  Jobs = {d1, d2, s}
  DagJobs = {d1, d2}
  DagRuns <- MCOneRun
  MaxTries <- MCMixed
  MaxId = 2
  MaxRestarts = 1
INVARIANTS TypeOK RegistryAgrees
PROPERTIES CancelledIsFinal
CHECK_DEADLOCK FALSE
