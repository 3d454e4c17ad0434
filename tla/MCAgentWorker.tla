--------------------------- MODULE MCAgentWorker ---------------------------
(* Jobs and slots for TLC: everything is interchangeable.                  *)
EXTENDS AgentWorker, TLC

CONSTANTS j1, j2, a1, s1, s2, none, nojob

MCPriority == [j \in Job |-> 0]

AgentSymmetry == Permutations(Slot) \cup Permutations(Job)

=============================================================================
