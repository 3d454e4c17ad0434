SPECIFICATION FairPendingSpec
CONSTANTS
    Actions = {form}
    Notices = {"outcome"}
    Calls = {c1, c2}
    MaxFaults = 1
INVARIANTS PendingTypeOK OneForm Consent
PROPERTIES VerdictFinal EveryFormArrives FormsClose
CHECK_DEADLOCK FALSE
