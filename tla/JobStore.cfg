SPECIFICATION MCSpec
CONSTANTS
    Jobs = {1, 2}
    Instances = {i1, i2}
    Worktrees = {w1}
    NULL = NULL
    TTL = 2
    Backoff = 1
    ClockLag = 1
    Scopes = {"lease", "worktree"}
INVARIANTS TypeOK ProjectionConsistent OneWriterPerWorktree
PROPERTIES TerminalSticky EpochFences LeaseHandover LeaseGrantedFromQueue
SYMMETRY Symmetry
VIEW FactsView
CHECK_DEADLOCK FALSE
