SPECIFICATION FairSpec
CONSTANTS
  a = a
  b = b
  Ids = {a, b}
  MaxCopies = 6
  Scenarios <- MCScenarios
  None = None
INVARIANTS TypeOK ActiveListed OneSocket
PROPERTIES Connected
CHECK_DEADLOCK FALSE
