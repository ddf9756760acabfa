SPECIFICATION MCSpec
CONSTANTS
    Keys = {1, 2}
    Workers = {p1, p2}
    MaxAttempts = 3
    Lease = 3
    BackoffInitial = 1
    BackoffMax = 2
    RetryAfters = {0, 3}
    p1 = p1
    p2 = p2
INVARIANTS OutboxInv OneSenderPerLease
