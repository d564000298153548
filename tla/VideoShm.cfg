SPECIFICATION FairSpec
CONSTANTS
  Sources = {s1, s2}
  RING_BUFFER_CNT = 2
  MaxCount = 3
  MaxFrames = 4
  Oversize = {1}
  MaxStarts = 2
  MaxKills = 1
PROPERTIES
  ImplementsQueue
  RendererStops
  SourceStops
CHECK_DEADLOCK FALSE
