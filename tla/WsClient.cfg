SPECIFICATION FairSpec
CONSTANTS
  MaxConns = 3
INVARIANTS
  OneLive
  EngineKnows
PROPERTIES
  EndReported
  CloseReturns
CHECK_DEADLOCK FALSE
