SPECIFICATION FairSpec
CONSTANTS
  main = main
  s1 = s1
  s2 = s2
  file = file
  linked = linked
  other = other
  NoPath = NoPath
  Writers = {main, s1, s2}
  Scoped = {s1, s2}
  Paths = {file, linked}
  FileOf <- MCFileOf
  MaxCalls = 2
INVARIANTS TypeOK FlagHasOneOwner ConflictOnlyOnCreation
PROPERTIES AcquireReturns
CHECK_DEADLOCK FALSE
