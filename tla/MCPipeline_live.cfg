SPECIFICATION FairSpec
CONSTANTS
    Backends = {b1}
    BatchSize = 2
    MaxRetries = 1
    MaxLen = 2
    MaxIds = 2
    MaxFaults = 0
    MaxCrashes = 1
    MaxReplays = 0
PROPERTIES
    RawDrains
    RetryDrainsWithoutCrash
CHECK_DEADLOCK FALSE
