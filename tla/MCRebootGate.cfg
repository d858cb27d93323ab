\* The window, the check after boot and doctor's reading of both.
CONSTANTS
    Units = {"base", "app"}
    Containers = {"web"}
    Sessions = {"tmux"}
    Wanter <- MCWanter
    Declared <- MCDeclared
    MaxAge = 1
    Faults = 2
    Edits = 1
SPECIFICATION Spec
INVARIANTS TypeOK QuietMeansChecked
PROPERTIES  LongStoppedStaysDown
