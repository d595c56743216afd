SPECIFICATION Spec
CONSTANTS
  DefaultBufferSize = 2
  GrowThreshold = 4
  MinRead = 1
  WordBits = 6
  MaxStatic = 2
  HeadLen = 2
  Numbers = 6
  MaxBytes = 5
  PoolSizes = {5}
  Nil = Nil
  Junk = Junk
  BodyLen <- MCBodyLen
CHECK_DEADLOCK FALSE
INVARIANT RingShape
PROPERTIES ActsAsQueue StaticLimit
