SPECIFICATION FairSpec
CONSTANTS
  s1 = s1
  s2 = s2
  goto = goto
  restart = restart
  Sessions <- MCSessions
  Default = s1
  Gated <- MCGated
  Supports <- MCSupports
  OutboxCap = 1
  MaxLines = 3
  MaxBackground = 1
INVARIANTS TypeOK Answers ListFresh
 
CHECK_DEADLOCK FALSE
