SPECIFICATION FairMonitorSpec
CONSTANTS
    Metrics = {m1}
    Disks = {d1}
    Levels = {0, 1}
    ToAlert = 2
    ToClear = 2
    MaxFaults = 2
    NoRow = NoRow
    None = None
    Unknown = Unknown
INVARIANTS MonitorTypeOK MarksAreTrue
PROPERTIES ChangesAreSustained SmartChangesAreTold ChangesAreTold
