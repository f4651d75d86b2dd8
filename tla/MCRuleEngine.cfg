SPECIFICATION Spec
CONSTANTS
    Workers = {w1, w2}
    w1 = w1
    w2 = w2
    e1 = e1
    e2 = e2
    e3 = e3
    r1 = r1
    Events <- MCEvents
    Rules <- MCRules
    EntityOf <- MCEntityOf
    Matches <- MCMatches
    Count <- MCCount
    Window = 1
    Cooldown = 2
    MaxTx = 1
    Attempts = 2
    MaxClock = 3
    MaxChanges = 2
    NoEvent = NoEvent
    NoRule = NoRule
SYMMETRY Symmetry
INVARIANTS
    TypeOK
    CountedOnce
    AlertIffBurst
    QuietBeforeNewAlert
    AnnouncedByOneSend
