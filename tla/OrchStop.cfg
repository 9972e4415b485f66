SPECIFICATION FairSpec
CONSTANTS
    RootLen = 2
    ChildLens = {1}
    Verified <- FirstVerified
    Outcomes = {"Completed", "Submitted", "Failed"}
    Verdicts = {"Verified", "NeedsRevision"}
    Requests <- ShelveRequests
    MaxDepth = 2
    MaxCalls = 2
INVARIANTS HandlesIdle AbortStopsRun PauseHoldsRun WorkAccounted
PROPERTIES AbortEndsRun WalkEnds
