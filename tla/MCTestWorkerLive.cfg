SPECIFICATION FairWorkerSpec
CONSTANTS
  j1 = j1
  j2 = j2
  e1 = e1
  e2 = e2
  none = none
  nojob = nojob
  Job = {j1, j2}
  TestJob = {j1, j2}
  Executor = {e1}
  NoExecutor = none
  NoJob = nojob
  Priority <- MCPriority
  TestMaxRequeues = 1
  MaxSeq = 14
  MaxCalls = 1
  MaxCrashes = 1
  MaxLosses = 1
PROPERTIES RunsEnd CurrentClears QueueDrains
CHECK_DEADLOCK FALSE
