SPECIFICATION FairReplicationSpec
CONSTANTS
    n1 = n1
    n2 = n2
    n3 = n3
    Nodes = {n1, n2, n3}
    Rank <- MCRank
    Active = {n1}
    Times = {1, 2}
    MaxEdits = 2
    MaxDeaths = 2
INVARIANTS ReplicationTypeOK RevisionsAreComparable
PROPERTIES NeverGoesBack Converges ServiceReadsItsPackage
CHECK_DEADLOCK FALSE
