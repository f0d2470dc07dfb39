SPECIFICATION FairSpec
CONSTANTS
  here = here
  there = there
  main = main
  panel = panel
  red = red
  blue = blue
  s1 = s1
  s2 = s2
  All = All
  Procs = {here, there}
  Fronts = {main, red, blue}
  Boxes = {main, red, blue}
  Subs = {s1}
  Readers = {main, red}
  Watchable = {}
  HomeOf <- MCHome
  KindOf <- MCKind
  Granted = {}
  MaxUnread = 1
  MaxDone = 0
  MaxMessages = 2
  MaxRuns = 1
INVARIANTS TypeOK InOrderOnce
PROPERTIES FirstContact
CHECK_DEADLOCK FALSE
