SPECIFICATION MCSpec
CONSTANTS
    Holders = {h1}
    Locks = {rl, tl}
    RequestLock = rl
    TargetLock = tl
    FREE = FREE
    MaxRetryAttempts = 1
    MaxBrokerFaults = 0
    MaxQueueFaults = 0
    Candidates = {1, 2, 3}
    Dep <- DepNone
    Scopes = {"queue"}
INVARIANTS IntegrationsAccumulate
SYMMETRY Symmetry
VIEW View
CHECK_DEADLOCK FALSE
