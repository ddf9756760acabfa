SPECIFICATION MCSpec
CONSTANTS
    Jobs = {1}
    Instances = {i1, i2}
    Worktrees = {w1}
    NULL = NULL
    TTL = 1
    Backoff = 0
    ClockLag = 0
    Scopes = {"alone", "first", "rivals", "later"}
INVARIANTS SchedInv AloneOneLaunchPerDispatch OneLauncherPerDispatch
PROPERTIES AloneHolderLaunches AloneLostStaysLost StepsAreStoreSteps
SYMMETRY Symmetry
VIEW View
CHECK_DEADLOCK FALSE
