SPECIFICATION Spec
CONSTANTS
    AskPermission = TRUE
    Faults = {}
    MaxCommands = 2
    Texts = {"a", "b", "c"}
    Keys <- PatientKeys
    MaxInputs = 3
    MaxCalls = 3
    ContextLow = FALSE
INVARIANTS TypeOK OneTurn CancelStops AnswersReachTheirCommand
PROPERTIES RefinesTurns
