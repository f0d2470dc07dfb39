SPECIFICATION FairSpec
CONSTANTS
  Hosts <- AllHosts
  BaseMax = 2
  ComplexMax = 2
  MaxPunchbacks = 1
  PreserveRecent = 2
  Recoveries = 1
  ToolCounts = {0, 2}
  MaxTurns = 2
  MaxNotes = 1
  MaxMishaps = 1
INVARIANTS TypeOK UnansweredOnlyAfterCut NoOrphanResults FileCoversSession
PROPERTIES TurnEnds
CHECK_DEADLOCK FALSE
