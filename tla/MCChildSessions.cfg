SPECIFICATION FairChildSpec
CONSTANTS
  Parent = parent
  Children = {js, py}
  Debugpy = {py}
  Lines = {l1}
  Initial = {l1}
  Lists <- NoLines
  Nobody = nobody
  Leaving = {js}
  MaxActs = 2
INVARIANTS ChildTypeOK 
PROPERTIES InSync ReinitAnswered EveryChildSettles
CHECK_DEADLOCK FALSE
