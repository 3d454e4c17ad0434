SPECIFICATION FairTasksSpec
CONSTANTS
    Tasks = {1, 2}
    Kind <- MCKind
    Ops = {o1}
    MaxDeaths = 1
    MaxRaises = 1
INVARIANTS TasksTypeOK FiringsAccounted
PROPERTIES EveryTaskAnswered
CHECK_DEADLOCK FALSE
