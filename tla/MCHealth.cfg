SPECIFICATION FairSpec
CONSTANTS
    Probes = {all, queue}
    all = all
    queue = queue
    Endpoints <- MCEndpoints
    Threshold <- MCThreshold
    MaxRetry = 1
    MaxDlq = 1
    MaxFaults = 1
INVARIANTS
    TypeOK
    AnswerExplained
PROPERTIES
    AlertChangeWitnessed
    AlertsConverge
