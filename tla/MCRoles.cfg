\* Two clients call a third one.  The users stop giving commands at the bounds.
SPECIFICATION SignedInSpec
CONSTANTS
  h1 = h1
  h2 = h2
  h3 = h3
  n1 = n1
  n2 = n2
  n3 = n3
  Handles = {h1, h2, h3}
  Names = {n1, n2, n3}
  Bodies = {}
  MaxId = 3
  PingInterval = 1
  PingTimeout = 1
  PongDelay = 0
  Callers = {h1, h2}
  Callees = {h3}
  MaxCalls = 2
  MaxDrops = 0
  Faults = FALSE
VIEW View
INVARIANTS
  NoCrash
  CallOutcome
CHECK_DEADLOCK FALSE
