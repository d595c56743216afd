SPECIFICATION FairSpec
CONSTANTS
  c1 = c1
  c2 = c2
  c3 = c3
  f1 = f1
  f2 = f2
  ln = ln
  tick = tick
  u1 = u1
  none = none
  Conns <- MCTwoConns
  Fds <- MCOneFd
  Ln = ln
  Ticker = tick
  Users <- MCOneUser
  None = none
  MaxReqs = 1
  MaxUserCloses = 1
  HandlerCloses = FALSE
  Faults <- MCNoFaults
CHECK_DEADLOCK FALSE
PROPERTIES
  RequestHeard
