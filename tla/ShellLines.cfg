SPECIFICATION Spec
CONSTANTS
    Callers = {1}
    Keeps = {TRUE}
    Modes = {"regular"}
    Bash = TRUE
    Long = {1}
    Slow = {}
    Faults = {}
    MaxCalls = 2
    MaxSwitches = 0
    MaxSessions = 2
INVARIANT ExitCodeIsOwn
CHECK_DEADLOCK FALSE
