SPECIFICATION FairSpec
CONSTANTS
  NumServers = 2
  MaxCalls = 4
  MaxFaults = 2
  MaxPages = 1
INVARIANTS TypeOK OnlyCurrentAnswers FailuresAreEarned CalledOnce
PROPERTIES CallsReturn
CHECK_DEADLOCK FALSE
