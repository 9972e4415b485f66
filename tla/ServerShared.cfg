SPECIFICATION Spec
CONSTANTS
    a = a
    b = b
    h1 = h1
    h2 = h2
    Models = {a, b}
    MaxModels = 1
    Handlers = {h1, h2}
    Operations = {"infer", "unload"}
    Configured = {}
    Oversized = {}
    Delayed = {}
    ModelLimit = 1
    TotalLimit = 1
INVARIANTS TypeOK LoadedIsResident LimitsKept GuardsReturned
SYMMETRY HandlerSymmetry
