SPECIFICATION FairSessionSpec
CONSTANTS
  Callers = {disp}
  Dispatcher = disp
  Events = {"initialized", "stopped", "continued", "exited"}
  OutCap = 1
  EventCap = 1
  MaxSeq = 9
  MaxEmit = 3
  Scopes = 0
  Watches = 0
  Faults = {}
  None = None
PROPERTIES EveryEventHandled
CHECK_DEADLOCK FALSE
