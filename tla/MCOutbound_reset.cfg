SPECIFICATION FairSpec
CONSTANTS
  w1 = w1
  c1 = c1
  ev = ev
  none = none
  Loop = ev
  NoOne = none
  Writers <- MCOne
  Closers <- MCNobody
  SndCap = 1
  Lens = {1}
  MaxBytes = 2
  Faults = {"reset"}
CHECK_DEADLOCK FALSE
PROPERTIES
  ResetIsReported
