\* Every command, three at a time; an import runs alone.
CONSTANTS
    Proc = {p1, p2, p3}
    Hostname = {h1, h2}
    Address = {a1, a2}
    Source = {tag}
    Commands <- All
    ImportsAlone = TRUE
    NoAddress = NoAddress
    NoSource = NoSource
    Missing = Missing
SPECIFICATION Spec
SYMMETRY Symmetry
INVARIANTS TypeOK ReportedKept
 
