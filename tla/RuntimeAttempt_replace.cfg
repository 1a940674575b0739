SPECIFICATION MixSpec
CONSTANTS
    c1 = c1
    c2 = c2
    c3 = c3
    j1 = j1
    j2 = j2
    None = None
    Calls <- ThreeCalls
    Jobs <- TwoJobs
    Kinds = {"enable", "desired", "disable", "forget", "teardown", "switchBegin", "switchEnd", "restart", "recover"}
    BusyPossible = TRUE
    PolicyRevocable = TRUE
    StopDeadline = TRUE
SYMMETRY Symmetry
INVARIANTS
    TypeOK
    StartingHasOwner
    RunCancelIsRunning
    NoOrphanRuntime
    NoGhostState
    SMSModeFollowsRuntime
    NoStoppedRuntimeClaimed
    InFlightHasOwner
    OneLiveSchedule
PROPERTIES
    ReplacedOnlyWhenStopped
CHECK_DEADLOCK FALSE
