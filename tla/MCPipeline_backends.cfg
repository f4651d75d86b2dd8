SPECIFICATION Spec
CONSTANTS
    Backends = {b1, b2}
    BatchSize = 2
    MaxRetries = 0
    MaxLen = 1
    MaxIds = 2
    MaxFaults = 1
    MaxCrashes = 1
    MaxReplays = 0
SYMMETRY BackendSymmetry
INVARIANTS
    NothingLeftBehind
    NoLoss
CHECK_DEADLOCK FALSE
