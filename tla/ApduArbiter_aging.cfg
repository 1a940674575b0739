SPECIFICATION FairSpec
CONSTANTS
    c1 = c1
    c2 = c2
    c3 = c3
    c4 = c4
    Callers = {c1, c2, c3}
    Requests <- Downloads
    MaxSessions = 1
    MaxQMITransports = 2
    RecoveryOptions = {FALSE}
    MayAge = TRUE
PROPERTIES
    AgedIsServed
