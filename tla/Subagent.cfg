SPECIFICATION FairSpec
CONSTANTS
  d1 = d1
  d2 = d2
  s = s
  Nobody = Nobody
  Jobs = {d1, d2}
  DagJobs = {d1, d2}
  DagRuns <- MCOneRun
  MaxTries <- MCOnce
  MaxId = 2
  MaxRestarts = 0
PROPERTIES RunningEnds AwaitEnds
CHECK_DEADLOCK FALSE
