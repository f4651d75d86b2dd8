SPECIFICATION Spec
CONSTANTS
    Workers = {w1, w2}
    w1 = w1
    w2 = w2
    Events <- MCEvents
    Entity <- MCEntity
    Type <- MCType
    Time <- MCTime
    Failures = 2
    Window = 2
    Lateness = 2
    Ahead = 1
    Retention = 4
    Cap = 4
    MaxDelay = 1
    MaxClock = 5
    NoEvent = 0
SYMMETRY Symmetry
INVARIANTS
    TypeOK
    ChainsFound
    EvidenceIsChain
    OneFinding
    RetentionBounds
    MatchIsScan
