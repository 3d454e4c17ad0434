SPECIFICATION FairAgentSpec
CONSTANTS
  j1 = j1
  j2 = j2
  a1 = a1
  s1 = s1
  s2 = s2
  none = none
  nojob = nojob
  Job = {j1}
  TestJob = {}
  Executor = {a1}
  NoExecutor = none
  Priority <- MCPriority
  TestMaxRequeues = 1
  MaxSeq = 9
  Agent = a1
  Slot = {s1}
  NoJob = nojob
  MaxCalls = 2
  MaxCrashes = 1
  MaxLosses = 1
INVARIANTS AgentTypeOK AgentRunsKnown
PROPERTIES AgentRunsEnd
CHECK_DEADLOCK FALSE
