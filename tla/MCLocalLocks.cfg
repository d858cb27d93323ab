\* Two commands over two namespaces; "artifact" takes a part of the locks of "create".
CONSTANTS
    Proc = {p1, p2}
    Namespace = {"n1", "n2"}
    Server = {"a1", "b1"}
    Home <- MCHome
    Tailnet = {}
    TokenRelative = "-"
    Artifact = {"credentials", "registry"}
    Generation = {1, 2}
    Commands = {"create", "delete", "namespaceDelete", "namespaceCreate", "approval"}
    NoServer = "none"
    NoTailnet = "off"
    NoGeneration = 0
SYMMETRY Symmetry
SPECIFICATION Spec
INVARIANTS TypeOK ServerExclusion NoStrandedDescriptor
PROPERTIES UnlinkOnlyClosed KeepsAuthority
