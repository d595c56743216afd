SPECIFICATION FairSpec
CONSTANTS
  p1 = p1
  p2 = p2
  loop = loop
  t1 = t1
  t2 = t2
  qu = qu
  qa = qa
  nil = nil
  Procs <- MCProcs
  Tasks <- MCTasks
  Queues <- MCQueues
  Nil = nil
  Loop = loop
  Urgent = qu
  Async = qa
  MaxAtOneTime = 1
CHECK_DEADLOCK FALSE
INVARIANTS
  PollerTypeOK
  NoLostWakeup
PROPERTIES
  TasksRun
