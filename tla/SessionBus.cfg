SPECIFICATION Spec
CONSTANTS
  here = here
  there = there
  main = main
  panel = panel
  red = red
  blue = blue
  s1 = s1
  s2 = s2
  All = All
  Procs = {here}
  Fronts = {main, panel}
  Boxes = {}
  Subs = {s1, s2}
  Readers = {main}
  Watchable <- MCWatchable
  HomeOf <- MCHome
  KindOf <- MCKind
  Granted <- MCGranted
  MaxUnread = 2
  MaxDone = 0
  MaxMessages = 2
  MaxRuns = 3
INVARIANTS NothingReachesTheForbidden NothingOutlivesItsPeer
PROPERTIES LossHasAReason
CHECK_DEADLOCK FALSE
