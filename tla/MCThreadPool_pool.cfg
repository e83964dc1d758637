SPECIFICATION PoolFairSpec
CONSTANTS
  w1 = w1
  w2 = w2
  j1 = j1
  j2 = j2
  j3 = j3
  Thread = {w1, w2}
  Job = {j1, j2, j3}
\* The owner may be done, or the process ended.
CHECK_DEADLOCK FALSE
INVARIANTS
  QueuedJobHasWorker
PROPERTIES
  ForkJoinSpec
  ShutdownReturns
