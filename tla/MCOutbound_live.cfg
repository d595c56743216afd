SPECIFICATION FairSpec
CONSTANTS
  w1 = w1
  c1 = c1
  ev = ev
  none = none
  Loop = ev
  NoOne = none
  Writers <- MCBoth
  Closers <- MCNobody
  SndCap = 1
  Lens = {1, 2}
  MaxBytes = 2
  Faults = {"fin"}
CHECK_DEADLOCK FALSE
PROPERTIES
  DrainOrClosed
  WritesReturn
  FinIsReported
