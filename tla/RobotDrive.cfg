SPECIFICATION FairSpec
CONSTANTS
  Drivers <- MCDrivers
  KnowsMovePtz = TRUE
  WATCHDOG = 3
  PauseTicks = 5
  RestartTicks = 4
  MaxLink = 2
  MaxTx = 1
INVARIANTS StopReaches FollowerYields
PROPERTY StopsWhenLetGo
