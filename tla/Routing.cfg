SPECIFICATION Spec
CONSTANTS
    NULL = NULL
    Risks = {"LOW", "HIGH"}
    MAX_DISPATCH_ATTEMPTS_PER_STEP = 3
    MAX_RUNTIME_UNKNOWN = 5
    MaxCycles = 1
    MaxFailures = 2
    MaxFacts = 2
INVARIANTS RoutingInv
PROPERTIES FallbackNeverWeaker EventuallyClosed
CHECK_DEADLOCK FALSE
