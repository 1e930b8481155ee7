SPECIFICATION FairSpec
CONSTANTS
  w1 = w1
  w2 = w2
  w3 = w3
  Workers = {w1, w2, w3}
  Free = Free
  MaxTasks = 4
CHECK_DEADLOCK FALSE
INVARIANTS
  TypeOK
  QueuedTaskHasAWorker
  EachTaskInOnePlace
  TakenInOrder
  NoBatchIsCutShort
PROPERTY
  TasksAreRun
  ImplementsTaskPool
