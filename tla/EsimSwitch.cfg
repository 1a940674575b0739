SPECIFICATION MCFairSpec
CONSTANTS
    s1 = s1
    s2 = s2
    p1 = p1
    p2 = p2
    None = None
    Switches = {s1, s2}
    Profiles = {p1, p2}
    Target <- OneForEach
    MaxWorker = 2
    JournalFaults = TRUE
    ReadFaults = TRUE
    GuardMayFire = TRUE
INVARIANTS
    TypeOK
    JournalIsTrue
    
    TornDownIsBlocked
PROPERTIES
    Settles
    TakenOver
CHECK_DEADLOCK FALSE
