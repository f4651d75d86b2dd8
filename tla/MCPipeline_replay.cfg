SPECIFICATION Spec
CONSTANTS
    Backends = {b1}
    BatchSize = 1
    MaxRetries = 1
    MaxLen = 1
    MaxIds = 1
    MaxFaults = 1
    MaxCrashes = 1
    MaxReplays = 2
INVARIANT DlqOnlyAfterBudget
PROPERTY Delivered
CHECK_DEADLOCK FALSE
