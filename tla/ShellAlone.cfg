SPECIFICATION FairSpec
CONSTANTS
    Keeps = {TRUE, FALSE}
    Callers = {1}
    Modes = {"regular"}
    Bash = TRUE
    Long = {}
    Slow = {"command"}
    Faults = {"exit", "lock", "runtime", "spawn"}
    MaxCalls = 3
    MaxSwitches = 1
    MaxSessions = 7
INVARIANTS NothingLeftRunning NoShellLeaks StateKept ExitCodeIsOwn
PROPERTIES CallsReturn
CHECK_DEADLOCK FALSE
