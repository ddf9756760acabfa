SPECIFICATION Spec
CONSTANTS
    NULL = NULL
    j1 = j1
    j2 = j2
    j3 = j3
    Jobs = {j1, j2, j3}
    Portfolios <- MCPortfolios
    HostStates <- MCHostStates
    Calm <- MCCalm
    Files <- MCFiles
    max_light = 2
    max_writers_global = 1
    max_resource_retries = 1
    max_resource_defers = 1
    MAX_DISPATCH_ATTEMPTS_PER_STEP = 1
    MAX_ACTION_RETRIES = 2
    MaxFaults = 1
INVARIANTS AdmissionInv ConflictsExcluded
PROPERTIES EvidenceSettledFirst StartsApart
CHECK_DEADLOCK FALSE
