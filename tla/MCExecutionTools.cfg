SPECIFICATION Spec
CONSTANTS
  main = main
  other = other
  Tasks = {main, other}
  Tools <- AllTools
  Lines = {l1, l2}
  Place <- Identity
  Continued = {TRUE, FALSE}
  Serial = TRUE
  MaxTools = 3
  MaxSteps = 2
  None = None
INVARIANTS TypeOK  StepsToItsStop
SYMMETRY Symmetry
CHECK_DEADLOCK FALSE
