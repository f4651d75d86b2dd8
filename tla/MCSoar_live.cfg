SPECIFICATION FairSpec
CONSTANTS
    Backends = {b1}
    Requests = {q1}
    b1 = b1
    b2 = b2
    q1 = q1
    q2 = q2
    contain = contain
    isolate = isolate
    automatic = automatic
    Playbooks = {contain, isolate, automatic}
    Trigger <- MCTrigger
    Action <- MCAction
    Approval <- MCApproval
    TTL <- MCTTL
    Kinds <- MCKinds
    ChainRules <- MCChainRules
    Allowlist <- MCAllowlist
    Limit = 2
    Recent = 1
    MaxClock = 2
    MaxAlerts = 1
    MaxFaults = 1
    NoTarget = NoTarget
    NoFilter = ""
INVARIANTS
    AnsweredInFull
PROPERTIES
    ExpiredIsReleased
CHECK_DEADLOCK FALSE
