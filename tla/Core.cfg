SPECIFICATION MCSpec
CONSTANTS
    NONE = NONE
    ApprovalTTL = 2
    MaxAttempts = 2
    ChallengeTTL = 1
    FutureSkew = 0
    MaxNow = 2
    MaxCycle = 2
    MaxHandoff = 30
    MaxRun = 2
    MaxGates = 2
    MaxChallenges = 2
    MaxSent = 2
INVARIANTS CoreInv LedgerAgrees ResultConsumable CallbackDecidesItsGate
PROPERTIES GateRefines
VIEW View
CHECK_DEADLOCK FALSE
