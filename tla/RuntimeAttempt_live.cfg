SPECIFICATION FairSpec
CONSTANTS
    c1 = c1
    c2 = c2
    c3 = c3
    j1 = j1
    j2 = j2
    None = None
    Calls <- TwoCalls
    Jobs <- OneJob
    Kinds = {"enable", "desired", "disable", "forget"}
    BusyPossible = TRUE
    PolicyRevocable = TRUE
    StopDeadline = TRUE
PROPERTIES
    CallsReturn
    FlightsEnd
CHECK_DEADLOCK FALSE
