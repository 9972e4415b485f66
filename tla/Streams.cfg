SPECIFICATION Spec
CONSTANTS
    Backends = {"openai", "anthropic", "responses"}
    Answers <- SomeAnswers
    OpenTag <- Open
    CloseTag <- Close
    Hold = 2
    Spaces <- White
    Faults = {"error", "closed", "broken", "cancel"}
    MaxOnWay = 3
INVARIANTS TypeOK ShownAsWritten RunAsAsked CutShortIsTold
CHECK_DEADLOCK FALSE
