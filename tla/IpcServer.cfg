SPECIFICATION FairSpec
CONSTANTS
  Fds = {f1, f2}
  max_clients_ = 2
  SockBuf = 2
  MaxConnects = 3
  MaxCommands = 1
  MaxEvents = 1
INVARIANTS
  OnlyOwnLines
  LinesWhole
  ListenerKnown
PROPERTIES
  IoReturns
  QuitEnds
CHECK_DEADLOCK FALSE
