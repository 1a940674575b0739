SPECIFICATION MCSpec
CONSTANTS
    c1 = c1
    c2 = c2
    c3 = c3
    c4 = c4
    Callers = {c1, c2, c3, c4}
    Requests <- Leases
    MaxSessions = 1
    MaxQMITransports = 2
    RecoveryOptions = {TRUE, FALSE}
    MayAge = TRUE
INVARIANTS
    TypeOK
    NoLostWakeup
PROPERTIES
    ExclusiveNotOvertaken
    Served
    Implements
