SPECIFICATION Spec
CONSTANTS
    RootLen = 2
    ChildLens = {0, 2}
    Verified <- SomeVerified
    Outcomes = {"Completed", "Submitted", "Failed", "Error"}
    Verdicts = {"Verified", "NeedsRevision", "Failed", "NoSummary"}
    Requests <- PlainRequests
    MaxDepth = 2
    MaxCalls = 1
INVARIANTS TypeOK WorkAccounted NoSpecTwice
PROPERTIES RefinesWalk
