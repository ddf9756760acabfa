SPECIFICATION MCSpec
CONSTANTS
    Procs = {p1, p2}
    Hosts = {h1}
    Pids = {1, 2}
    NULL = NULL
    Locked = {}
    EvidenceSound = FALSE
    MAX_ACQUIRE_ATTEMPTS = 2
    MAX_CONSECUTIVE_ERRORS = 2
    HeartbeatEvery = 2
    MaxPasses = 3
    MaxBoots = 0
    MaxTicks = 2
    Scopes = {"evicted"}
INVARIANTS StaleRunsAtMostOnePass
PROPERTIES EvictedExitsFailed
SYMMETRY Symmetry
VIEW View
CHECK_DEADLOCK FALSE
