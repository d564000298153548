SPECIFICATION FairSpec
CONSTANTS
  Readers = {c1}
  RING_BUFFER_CNT = 3
  MaxRetries = 2
  MaxBegins = 8
INVARIANTS
  RecentIsWhole
PROPERTIES
  FramesInTurn
  SourceStops
CHECK_DEADLOCK FALSE
