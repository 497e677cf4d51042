SPECIFICATION FairSpec
CONSTANTS
  Callers = {c1, c2}
  Events = {"output"}
  OutCap = 1
  EventCap = 1
  MaxSeq = 2
  MaxEmit = 2
  Faults = {"garble", "exit"}
  None = None
INVARIANTS Correlation IInv
PROPERTIES RequestEnds ImplementsRequestReply
CHECK_DEADLOCK FALSE
