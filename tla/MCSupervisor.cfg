SPECIFICATION FairSupervisorSpec
CONSTANTS
    Callers = {c1}
    Watchers = {w1, w2, w3, w4}
    MaxOrphans = 1
    None = None
INVARIANTS SupervisorTypeOK WantedIsWatched
PROPERTIES WantedRuns
CHECK_DEADLOCK FALSE
