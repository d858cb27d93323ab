\* Tailnet policies, and locks waited for.
CONSTANTS
    Proc = {p1, p2}
    Namespace = {"n1", "n2"}
    Server = {"a1"}
    Home <- MCHome
    Tailnet = {"-", "t1"}
    TokenRelative = "-"
    Artifact = {"state", "registry"}
    Generation = {1, 2}
    Commands = {"create", "delete", "reconcile"}
    NoServer = "none"
    NoTailnet = "off"
    NoGeneration = 0
SPECIFICATION FairSpec
INVARIANT PolicyExclusion
PROPERTY EveryWaitEnds
