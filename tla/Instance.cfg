SPECIFICATION MCSpec
CONSTANTS
    Procs = {p1, p2, p3}
    Hosts = {h1, h2}
    Pids = {1, 2}
    NULL = NULL
    Locked = {p1, p2}
    EvidenceSound = TRUE
    MAX_ACQUIRE_ATTEMPTS = 2
    MAX_CONSECUTIVE_ERRORS = 1
    HeartbeatEvery = 1
    MaxPasses = 1
    MaxBoots = 1
    MaxTicks = 3
    Scopes = {"hosts", "loops"}
INVARIANTS SingleActive HolderOwnsRow
PROPERTIES NoLiveOwnerEvicted
SYMMETRY Symmetry
VIEW View
CHECK_DEADLOCK FALSE
