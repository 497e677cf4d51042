SPECIFICATION Spec
CONSTANTS
  a = a
  b = b
  r1 = r1
  r2 = r2
  p1 = p1
  p2 = p2
  Servers = {a, b}
  Readers = {r1, r2}
  Ports = {p1, p2}
  Scripts <- MCScripts
  None = None
SYMMETRY Symmetry
INVARIANTS TypeOK PortKept CallsOnce
CHECK_DEADLOCK FALSE
