SPECIFICATION Spec
CONSTANTS
  c1 = c1
  c2 = c2
  None = None
  g1 = g1
  g2 = g2
  g3 = g3
  Servers = {c1}
  Clients = {c2}
  Rings = {g1, g2, g3}
  MaxMsgs = 2
CHECK_DEADLOCK FALSE
INVARIANT SliceStable
