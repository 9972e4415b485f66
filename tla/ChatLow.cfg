SPECIFICATION Spec
CONSTANTS
    AskPermission = FALSE
    Faults = {}
    MaxCommands = 0
    Texts = {"a"}
    Keys = {}
    MaxInputs = 1
    MaxCalls = 3
    ContextLow = TRUE
INVARIANT ContinueAfterSummary
