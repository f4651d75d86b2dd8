SPECIFICATION Spec
CONSTANTS
    Callers = {parser, retry}
    parser = parser
    retry = retry
    Indicators = {i1, i2, private}
    i1 = i1
    i2 = i2
    private = private
    Private = {private}
    Feed <- Observed
    CacheLimit = 1
    MaxPerMinute = 1
    Minute = 1
    TTL = 2
    NegativeTTL = 1
    Timeout = 1
    MaxClock = 3
    MaxEvents = 2
SYMMETRY Symmetry
INVARIANTS
    TypeOK
    AnswerCurrent
    QuotaHolds
CHECK_DEADLOCK FALSE
