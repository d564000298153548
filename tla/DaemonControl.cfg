SPECIFICATION FairSpec
CONSTANTS
  kMaxRetries = 2
  MaxFaults = 2
  MaxCalls = 2
INVARIANT CallShown
PROPERTIES DaemonComesBack ChannelFollows
CHECK_DEADLOCK FALSE
