SPECIFICATION Spec
CONSTANTS
  c1 = c1
  c2 = c2
  x = x
  w = w
  u = u
  v = v
  d1 = d1
  d2 = d2
  Calls = {c1, c2}
  Names = {x}
  Values = {u, v}
  Watches = {w}
  DataIds = {d1, d2}
  ConsoleCap = 2
  TimelineCap = 3
  MaxStops = 5
  MaxCallStops = 2
  MaxLines = 3
  Mixes <- MCMixes
  None = None
SYMMETRY Symmetry
INVARIANTS TypeOK ContextCoherent ListsSettle 
PROPERTIES OutputFound
CHECK_DEADLOCK FALSE
