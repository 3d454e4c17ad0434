SPECIFICATION HubSpec
CONSTANTS
  t1 = t1
  a1 = a1
  e1 = e1
  e2 = e2
  none = none
  Job = {t1, a1}
  TestJob = {t1}
  Executor = {e1, e2}
  NoExecutor = none
  Priority <- MCPriority
  TestMaxRequeues = 1
  MaxSeq = 4
SYMMETRY ExecutorSymmetry
INVARIANTS HubTypeOK VerdictMatchesStatus RunsAccounted ActiveHasExecutor
PROPERTIES HubMeetsContract
CHECK_DEADLOCK FALSE
