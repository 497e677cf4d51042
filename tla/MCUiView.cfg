SPECIFICATION ViewSpec
CONSTANTS
  Sockets = {s1, s2}
  CacheCap = 2
  ChannelCap = 2
  MaxFrames = 5
  MaxChanges = 3
  MaxCommands = 1
  ViewCap = 2
  FetchLimit = 1
  Mixes <- MCMixes
INVARIANTS ViewTypeOK StatusFollows 
CHECK_DEADLOCK FALSE
