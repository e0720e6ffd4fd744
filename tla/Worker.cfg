SPECIFICATION Spec
CONSTANTS
  Thread = {t1, t2, t3}
  None = None
INVARIANTS
  StopReachesRequest
  JoinsAnEndedWorker
PROPERTIES
  RefinesPool
  QueueIsServed
  WorkersEnd
