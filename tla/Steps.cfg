SPECIFICATION FairSpec
CONSTANTS
    AskPermission = FALSE
    Faults = {"request", "stream"}
    MaxCommands = 1
    MaxJobs = 3
INVARIANTS TypeOK CompletedRanWhole OwnContext
PROPERTIES JobsEnd
CHECK_DEADLOCK FALSE
