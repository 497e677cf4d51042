SPECIFICATION FairSessionSpec
CONSTANTS
  Callers = {disp}
  Dispatcher = disp
  Events = {"initialized", "stopped", "continued", "exited"}
  OutCap = 1
  EventCap = 1
  MaxSeq = 20
  MaxEmit = 4
  Scopes = 1
  Watches = 1
  Faults = {"exit","garble"}
  None = None
INVARIANTS SessionTypeOK 
  
CHECK_DEADLOCK FALSE
