SPECIFICATION Spec
CONSTANTS
  Hosts <- MCShell
  BaseMax = 2
  ComplexMax = 2
  MaxPunchbacks = 1
  PreserveRecent = 2
  Recoveries = 1
  ToolCounts = {0, 2}
  MaxTurns = 2
  MaxNotes = 0
  MaxMishaps = 1
INVARIANTS RequestsArePaired
CHECK_DEADLOCK FALSE
