SPECIFICATION QueueSpec
CONSTANTS
  p1 = p1
  p2 = p2
  p3 = p3
  t1 = t1
  t2 = t2
  t3 = t3
  qa = qa
  nil = nil
  Procs <- MCProcs
  Tasks <- MCTasks
  Queues <- MCQueues
  Nil = nil
CHECK_DEADLOCK FALSE
SYMMETRY Symmetry
INVARIANTS
  TypeOK
  QueueShape
  CounterLag
PROPERTIES
  Linearizable
