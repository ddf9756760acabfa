SPECIFICATION MCSpec
CONSTANTS
    Waits = {1, 2, 3}
    JobOf <- MCJobOf
    CiWaits = {2}
    Instances = {i1, i2}
    MaxItems = 1
    BACKOFF_MINUTES <- Ladder
    DeadlineMinutes = 2
    ResetMinutes = 3
    MaxFaults = 1
    MaxChanges = 2
INVARIANTS WaitsInv GreenWasSeen
PROPERTIES EventuallyWoken
CHECK_DEADLOCK FALSE
