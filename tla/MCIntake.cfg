SPECIFICATION Spec
CONSTANTS
    Requests = {r1, r2}
    Admins = {d1}
    Hosts = {a1, a2, other}
    Assets = {a1, a2}
    Agents = {g1, g2}
    a1 = a1
    a2 = a2
    other = other
    r1 = r1
    r2 = r2
    g1 = g1
    g2 = g2
    d1 = d1
    Types = {sshd}
    NoAgent = NoAgent
    Fold <- MCFold
    Limit = 1
    Window = 2
    KeyTTL = 1
    MaxClock = 2
    MaxKeys = 1
    MaxEnrol = 2
    MaxFaults = 1
SYMMETRY Symmetry
INVARIANTS
    TypeOK
    SlidingBound
    CounterExpires
    PublishedIsAuthorised
    SourcesAreGranted
    DeployedInFull
CHECK_DEADLOCK FALSE
