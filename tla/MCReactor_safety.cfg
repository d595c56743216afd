SPECIFICATION Spec
CONSTANTS
  c1 = c1
  c2 = c2
  c3 = c3
  f1 = f1
  f2 = f2
  ln = ln
  tick = tick
  u1 = u1
  none = none
  Conns <- MCThreeConns
  Fds <- MCTwoFds
  Ln = ln
  Ticker = tick
  Users <- MCNoUsers
  None = none
  MaxReqs = 1
  MaxUserCloses = 0
  HandlerCloses = TRUE
  Faults <- MCFaults
CHECK_DEADLOCK FALSE
SYMMETRY Symmetry
INVARIANTS
  TypeOK
  QuietConsistent
  DispatchToOwner
PROPERTIES
  NoForeignTeardown
  OnCloseOnce
