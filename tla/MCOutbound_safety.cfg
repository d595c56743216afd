SPECIFICATION Spec
CONSTANTS
  w1 = w1
  c1 = c1
  ev = ev
  none = none
  Loop = ev
  NoOne = none
  Writers <- MCBoth
  Closers <- MCCloser
  SndCap = 2
  Lens = {0, 1, 3}
  MaxBytes = 3
  Faults = {"fin", "reset"}
CHECK_DEADLOCK FALSE
INVARIANTS
  TypeOK
  StreamOrder
  ArmedWhenPending
PROPERTIES
  NoSpuriousTeardown
  ImplementsStream
