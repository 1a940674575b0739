SPECIFICATION FairSpec
CONSTANTS
    MaxCandidate = 3
    Callers = {a, b, c}
INVARIANTS
    TypeOK
    NoDetachedSession
    InUseIsOpen
PROPERTIES
    StopEnds
