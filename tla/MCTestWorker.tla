---------------------------- MODULE MCTestWorker ----------------------------
(* Executors and jobs for TLC: everything is interchangeable.              *)
EXTENDS TestWorker, TLC

CONSTANTS j1, j2, e1, e2, none, nojob

MCPriority == [j \in Job |-> 0]

WorkerSymmetry == Permutations(Executor) \cup Permutations(Job)

=============================================================================
