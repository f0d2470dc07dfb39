SPECIFICATION Spec
CONSTANTS
  main = main
  s1 = s1
  s2 = s2
  file = file
  linked = linked
  other = other
  NoPath = NoPath
  Writers = {main, s1}
  Scoped = {s1}
  Paths = {file, other}
  FileOf <- MCFileOf
  MaxCalls = 1
INVARIANTS ParentAndChildExclude
CHECK_DEADLOCK FALSE
