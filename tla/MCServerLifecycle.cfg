\* Two operators; every kind of fault.
CONSTANTS
    Proc = {p1, p2}
    NoProc = NoProc
    NoState = NoState
    Ids = 2
    Creates = 2
    Faults = {"abort", "lost", "disk", "crash"}
    Budget = 2
    TunnelEnabled = TRUE
    AttachmentVisible = TRUE
CHECK_DEADLOCK FALSE
SPECIFICATION Spec
SYMMETRY Symmetry
INVARIANTS TypeOK NothingForgotten ForeignTunnelsSurvive AtMostOneServer
PROPERTIES FirstBindIsOwn
