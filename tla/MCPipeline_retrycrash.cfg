SPECIFICATION FairSpec
CONSTANTS
    Backends = {b1}
    BatchSize = 2
    MaxRetries = 1
    MaxLen = 2
    MaxIds = 1
    MaxFaults = 0
    MaxCrashes = 1
    MaxReplays = 0
PROPERTY
    RetryDrains
CHECK_DEADLOCK FALSE
