\* Two clients sign in, call, hang up and disconnect.  The users stop at the
\* limits, and there are no ids left after MaxId.
SPECIFICATION SignedInSpec
CONSTANTS
  c1 = c1
  c2 = c2
  Clients = {c1, c2}
  Limits <- SessionLimits
  Sockets <- MCSockets
  Bodies = {"offer", "answer", "candidate"}
  MaxId = 3
VIEW View
INVARIANTS
  WaitMeansEmpty
  PeersKnown
  NoneStranded
  NothingLeftBehind
PROPERTIES
  OfferOpensCall
CHECK_DEADLOCK FALSE
