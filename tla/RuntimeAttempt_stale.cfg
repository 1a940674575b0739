SPECIFICATION Spec
CONSTANTS
    c1 = c1
    c2 = c2
    c3 = c3
    j1 = j1
    j2 = j2
    None = None
    Calls <- ThreeCalls
    Jobs <- NoJob
    Kinds = {"enable", "desired", "forget"}
    BusyPossible = FALSE
    PolicyRevocable = FALSE
    StopDeadline = FALSE
SYMMETRY Symmetry
INVARIANTS
    StalePublishNothing
