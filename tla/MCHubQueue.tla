----------------------------- MODULE MCHubQueue -----------------------------
(* The hub's queue on a test job and an agent job, with two executors that *)
(* call in any order.                                                      *)
EXTENDS HubQueue, TLC

CONSTANTS t1, a1, e1, e2, none

MCPriority == [j \in Job |-> IF j = a1 THEN 5 ELSE 0]

\* The two executors are interchangeable.
ExecutorSymmetry == Permutations(Executor)

=============================================================================
