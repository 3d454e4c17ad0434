--------------------------- MODULE MCReplication ---------------------------
EXTENDS Replication, Integers

CONSTANTS n1, n2, n3

MCRank == [n \in Nodes |-> IF n = n1 THEN 1 ELSE IF n = n2 THEN 2 ELSE 3]
=============================================================================
