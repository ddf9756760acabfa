SPECIFICATION MCSpec
CONSTANTS
    Jobs = {1}
    Instances = {i1, i2}
    Worktrees = {w1}
    NULL = NULL
    TTL = 1
    Backoff = 0
    ClockLag = 0
    Scopes = {"takeover"}
PROPERTY NoTakeoverUnderLiveAgent
SYMMETRY Symmetry
VIEW View
CHECK_DEADLOCK FALSE
