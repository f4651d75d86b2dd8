SPECIFICATION Spec
CONSTANTS
    Requests = {r1, r2}
    Users = {ada, bob}
    r1 = r1
    r2 = r2
    ada = ada
    bob = bob
    Role <- MCRole
    Known = {ada}
    Assignees = {ada}
    Alerts = {a1}
    a1 = a1
    Statuses = {"open", "closed"}
    NoStatus = ""
    NoUser = NoUser
    NoAlert = NoAlert
    TokenTTL = 1
    MaxCases = 1
    MaxAudit = 3
    MaxClock = 1
    MaxFaults = 1
SYMMETRY Symmetry
INVARIANTS
    TypeOK
    AuditReplays
    DisabledStops
CHECK_DEADLOCK FALSE
