SPECIFICATION FairSpec
CONSTANTS
    AskPermission = FALSE
    Faults = {"request", "stream", "timeout"}
    MaxCommands = 0
    Texts = {"a", "/clear", "/summarize"}
    Keys <- ImpatientKeys
    MaxInputs = 2
    MaxCalls = 0
    ContextLow = FALSE
INVARIANTS SpinnerMeansWork
PROPERTIES SpinnerStops
