\* A create and deletes of two operators.
CONSTANTS
    Proc = {p1, p2}
    NoProc = NoProc
    NoState = NoState
    Ids = 1
    Creates = 1
    Faults = {"abort", "lost", "disk", "crash"}
    Budget = 2
    TunnelEnabled = FALSE
    AttachmentVisible = TRUE
CHECK_DEADLOCK FALSE
SPECIFICATION FairSpec
PROPERTY DeleteCompletes
