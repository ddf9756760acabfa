SPECIFICATION MCSpec
CONSTANTS
    Holders = {h1, h2}
    Locks = {rl, tl}
    RequestLock = rl
    TargetLock = tl
    FREE = FREE
    MaxRetryAttempts = 1
    MaxBrokerFaults = 3
    MaxQueueFaults = 2
    Candidates = {1, 2}
    Dep <- DepOfFirst
    Scopes = {"broker", "queue"}
INVARIANTS ActionsInv OneDispatchInFlight IntegratedAlone DependencyFirst
SYMMETRY Symmetry
VIEW View
CHECK_DEADLOCK FALSE
