SPECIFICATION WorkerSpec
CONSTANTS
  j1 = j1
  j2 = j2
  e1 = e1
  e2 = e2
  none = none
  nojob = nojob
  Job = {j1}
  TestJob = {j1}
  Executor = {e1, e2}
  NoExecutor = none
  NoJob = nojob
  Priority <- MCPriority
  TestMaxRequeues = 1
  MaxSeq = 14
  MaxCalls = 2
  MaxCrashes = 1
  MaxLosses = 2
SYMMETRY WorkerSymmetry
INVARIANTS WorkerTypeOK KnownRuns OwnVerdicts
CHECK_DEADLOCK FALSE
