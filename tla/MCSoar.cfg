SPECIFICATION Spec
CONSTANTS
    Backends = {b1, b2}
    Requests = {q1, q2}
    b1 = b1
    b2 = b2
    q1 = q1
    q2 = q2
    contain = contain
    isolate = isolate
    automatic = automatic
    Playbooks = {contain, automatic}
    Trigger <- MCTrigger
    Action <- MCAction
    Approval <- MCApproval
    TTL <- MCTTL
    Kinds <- MCKinds
    ChainRules <- MCChainRules
    Allowlist <- MCAllowlist
    Limit = 2
    Recent = 1
    MaxClock = 1
    MaxAlerts = 1
    MaxFaults = 0
    NoTarget = NoTarget
    NoFilter = ""
SYMMETRY Symmetry
INVARIANTS
    TypeOK
    ApprovalGate
    ProtectedNeverBlocked
    OncePerBackend
PROPERTIES
    DecidedOnce
CHECK_DEADLOCK FALSE
