\* Both watchers armed, a shared waker and a waker of its own.
SPECIFICATION Spec
CONSTANTS
  g1 = g1
  g2 = g2
  g3 = g3
  t1 = t1
  t2 = t2
  Reasons = {timeout, interrupt}
  NoReason = NoReason
  NoResult = NoResult
  Guards <- MCGuards
  Tasks <- MCTasks
  TaskOf <- MCTaskOf
INVARIANTS ParkedIsReachable
PROPERTY ImplementsPromise
CHECK_DEADLOCK FALSE
