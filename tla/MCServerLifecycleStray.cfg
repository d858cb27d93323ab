\* An earlier attempt leaves a server behind.
CONSTANTS
    Proc = {p1}
    NoProc = NoProc
    NoState = NoState
    Ids = 2
    Creates = 3
    Faults = {"crash"}
    Budget = 2
    TunnelEnabled = FALSE
    AttachmentVisible = TRUE
CHECK_DEADLOCK FALSE
SPECIFICATION Spec
INVARIANT SecretsToOwnServer
