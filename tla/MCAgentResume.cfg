SPECIFICATION AgentSpec
CONSTANTS
  j1 = j1
  j2 = j2
  a1 = a1
  s1 = s1
  s2 = s2
  none = none
  nojob = nojob
  Job = {j1}
  TestJob = {}
  Executor = {a1}
  NoExecutor = none
  Priority <- MCPriority
  TestMaxRequeues = 1
  MaxSeq = 9
  Agent = a1
  Slot = {s1}
  NoJob = nojob
  MaxCalls = 1
  MaxCrashes = 0
  MaxLosses = 0
INVARIANTS WaitingIsParked
CHECK_DEADLOCK FALSE
