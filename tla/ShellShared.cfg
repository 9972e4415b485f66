SPECIFICATION FairSpec
CONSTANTS
    Callers = {1, 2}
    Keeps = {FALSE}
    Modes = {"readonly"}
    Bash = TRUE
    Long = {}
    Slow = {"command"}
    Faults = {"drop", "lag"}
    MaxCalls = 2
    MaxSwitches = 1
    MaxSessions = 4
INVARIANTS TypeOK ModeInForce
 
CHECK_DEADLOCK FALSE
