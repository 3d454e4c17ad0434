------------------------------- MODULE MCLease -------------------------------
(* The nodes of the swarm for TLC: an active node a and standbys b and c.   *)
EXTENDS Lease

CONSTANTS a, b, c

MCRank == [n \in Node |-> IF n = a THEN 3 ELSE IF n = b THEN 2 ELSE 1]

=============================================================================
