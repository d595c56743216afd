SPECIFICATION Spec
CONSTANTS
  w1 = w1
  c1 = c1
  ev = ev
  none = none
  Loop = ev
  NoOne = none
  Writers <- MCOne
  Closers <- MCCloser
  SndCap = 1
  Lens = {3}
  MaxBytes = 3
  Faults = {}
CHECK_DEADLOCK FALSE
PROPERTIES
  ResidualSent
