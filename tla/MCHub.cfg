SPECIFICATION FairSpec
CONSTANTS
  Sockets = {s1, s2}
  CacheCap = 2
  ChannelCap = 2
  MaxFrames = 4
  MaxCommands = 1
INVARIANTS Relayed
 
CHECK_DEADLOCK FALSE
