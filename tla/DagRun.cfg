SPECIFICATION FairSpec
CONSTANTS
  a = a
  b = b
  c = c
  d = d
  NoNode = NoNode
  Nodes = {a, b, c, d}
  Graphs <- MCGraphs
  MaxRetries <- MCOneRetry
  MaxParallelism = 2
  Overrides = {"On", "none"}
  MaxRounds = 1
  CallerChecks = TRUE
INVARIANTS TypeOK DependencyOrder ParallelismCap MirrorAgrees OnlySkipsHideNodes
PROPERTIES ImplementsContract NothingStartsAfterStop EventuallyReturns CancelTerminates
CHECK_DEADLOCK FALSE
