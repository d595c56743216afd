SPECIFICATION Spec
CONSTANTS
  WordBits = 6
  Caps <- MCCaps
  CPUs = 4
  MaxOptions = 2
  MaxCrashes = 1
  NoAddr = NoAddr
CHECK_DEADLOCK FALSE
INVARIANTS
  NormalizedCaps
  NothingLeft
  OptionsBeforeBind
  PathFree
  ListWithinLimits
