SPECIFICATION FairSpec
CONSTANTS
  Ids = {"default", "other"}
  MaxSessions = 2
  MaxEnds = 2
  None = None
INVARIANTS TypeOK Kept
PROPERTIES Collected
CHECK_DEADLOCK FALSE
