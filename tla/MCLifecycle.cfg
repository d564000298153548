\* One client calls the other one, both lose the connection and come back.
SPECIFICATION SessionSpec
CONSTANTS
  h1 = h1
  h2 = h2
  h3 = h3
  n1 = n1
  n2 = n2
  n3 = n3
  Handles = {h1, h2}
  Names = {n1, n2}
  Bodies = {}
  MaxId = 4
  PingInterval = 1
  PingTimeout = 1
  PongDelay = 0
  Callers = {h1}
  Callees = {h1, h2}
  MaxCalls = 2
  MaxDrops = 2
  Faults = TRUE
VIEW View
INVARIANTS
  SidesAgree
  FromPeer
CHECK_DEADLOCK FALSE
