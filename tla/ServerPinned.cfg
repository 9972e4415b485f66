SPECIFICATION FairSpec
CONSTANTS
    a = a
    b = b
    h1 = h1
    h2 = h2
    Models = {a, b}
    MaxModels = 1
    Handlers = {h1, h2}
    Operations = {"infer", "pin", "unload"}
    Configured = {a}
    Oversized = {b}
    Delayed = {a}
    ModelLimit = 1
    TotalLimit = 1
INVARIANTS ConfiguredStays
PROPERTY RequestsEnd
