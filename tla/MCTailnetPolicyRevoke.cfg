\* The rule of a revoke against the records of the other servers.
CONSTANTS
    s1 = s1
    s2 = s2
    shared = shared
    own = own
    AutoTag = auto
    None = None
    Proc = {p1, p2}
    Server = {s1, s2}
    Tag = {shared, own}
    MaxEdits = 1
    TagsOf <- MCTagsOf
    Choices <- MCChoices
    Default <- MCDefault
SPECIFICATION Spec
SYMMETRY Symmetry
PROPERTY RevokesOnlyUnrecorded
