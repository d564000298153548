SPECIFICATION Spec
CONSTANTS
  h1 = h1
  h2 = h2
  h3 = h3
  n1 = n1
  n2 = n2
  n3 = n3
  Handles = {h1, h2, h3}
  Names = {n1, n2, n3}
  Bodies = {"sdp"}
  MaxId = 3
  PingInterval = 2
  PingTimeout = 2
  PongDelay = 1
SYMMETRY Symmetry
VIEW View
INVARIANTS
  RegistryConsistent
  SilenceBounded
PROPERTIES
  RosterBroadcast
  EndOfCallNotified
  OnlySilentClosed
  PairingSpec
